---- MODULE Spec2Model ----
(***************************************************************************)
(* A model of the PDF question-answering pipeline of the Next.js front end:*)
(*   - the lazily initialised embedding service   (src/lib/embedding.ts)   *)
(*   - the hybrid ingest route and the chunk store (api/ingest-hybrid,     *)
(*     supabase_schema.sql)                                                *)
(*   - the server-sent-event proxy                 (api/ask-stream)        *)
(*     and the EventSource of the chat page that reads it                  *)
(*   - the search route and search_document_chunks                         *)
(*   - the forwarding proxies of /ask and /ingest  (api/ask, api/ingest)   *)
(* JavaScript runs each synchronous stretch of code to completion, so one  *)
(* action is one stretch between two awaits; everything a collaborator     *)
(* (model loader, Python backend, database) answers is chosen by \E.       *)
(***************************************************************************)
EXTENDS Integers, Sequences, FiniteSets, TLC

(***************************************************************************)
(* Bounds of the model.                                                    *)
(***************************************************************************)
NumCallers == 2      \* concurrent calls into the embedding service
MaxLoads == 2        \* model loads (_initialize runs) explored

NumIngests == 2      \* ingest requests explored
MaxDeltas == 2       \* content events of one backend answer stream
MaxStoredDocs == 1   \* documents in the table when search requests arrive
MaxBatch == 2        \* texts of one generateEmbeddings call
MaxSubmits == 2      \* submissions of the chat form explored

Callers == 1..NumCallers
Promises == 1..MaxLoads
Ingests == 1..NumIngests

\* Program constants.
FloorPct == 10       \* match_threshold 0.1, in hundredths
CharBudget == 2000   \* text.length > 2000 ? text.substring(0, 2000) : text

\* The inputs explored: uploaded files and the texts of their chunks.
PdfFiles == {"a.pdf", "b.pdf"}
OtherFiles == {"notes.txt"}
NoFile == "none"
Malformed == "malformed"
Texts == {1, 2, 3}
BackendStatuses == {422}

VARIABLES
    \* ---- EmbeddingService (embedding.ts:7-10) and its callers
    embedder,        \* TRUE when this.embedder holds the loaded pipeline
    isInitializing,  \* this.isInitializing
    initPromise,     \* this.initPromise: 0 for null, else the promise of a load
    promiseState,    \* per load promise: "none", "pending", "fulfilled", "rejected"
    loadsStarted,    \* number of _initialize runs so far (also the last promise id)
    cpc,             \* per caller: position of its call
    cop,             \* per caller: the method it called
    cAwait,          \* per caller: the load promise its initialize() call hangs on
    cStarted,        \* per caller: loads this one call has started
    cResult,         \* per caller: "none", "ok", "error"
    disposedSince,   \* dispose() cleared a model since the last successful load
    \* ---- hybrid ingest route, one entry per request, and the database
    ipc,             \* position of the handler
    ifile,           \* the uploaded file (its name), NoFile when missing
    chunks,          \* the chunk texts the Python backend returned
    embeddings,      \* what generateEmbeddings returned
    docId,           \* the uuid of the document, 0 before it is drawn
    insRes,          \* what the insert into document_chunks reported
    log,             \* the stages the request has attempted, in order
    failedAt,        \* the stage at which the request failed, "none" otherwise
    resp,            \* the response returned, status 0 while there is none
    store,           \* the rows of table document_chunks
    userDocs,        \* the rows of table user_documents
    nextDoc,         \* number of uuids drawn so far
    searchRes,       \* the chunks (document, index) the last search returned
    \* ---- ask-stream proxy (GET), one request
    spc,             \* position of the handler and of its response stream
    sStatus,         \* HTTP status of the response, 0 while there is none
    backendLeft,     \* what the backend stream has still to deliver
    out,             \* the chunks enqueued on the response stream, in order
    closeCalls,      \* calls of controller.close() so far
    sTopK,           \* the top_k sent to the backend, "none" before the fetch
    readLog,         \* the chunks reader.read() has returned, in order
    cancelled,       \* the consumer of the response stream has cancelled it
    backendOpen,     \* the backend's body is open and locked by the reader
    \* ---- the caller of the stream: the EventSource of ChatInterface
    esState,         \* "none", "open", "closed" (eventSource.close() or failed)
    seen,            \* how many enqueued chunks have reached the EventSource
    assistantResponse, \* the content deltas appended so far, in order
    savedMsgs,       \* the assistant messages saved
    alerts,          \* alert() calls of onerror
    \* ---- search route (POST), one request at a time
    qpc,             \* position of the handler
    qBody,           \* the request body
    qVec,            \* queryEmbedding, 0 while there is none
    qCount,          \* the match_count given to the rpc
    qCalls,          \* calls this request made: embedding, rpc
    qRes,            \* what the rpc returned: data and error
    qResp,           \* the response returned, status 0 while there is none
    qPrev,           \* the rpc execution of the request before: arguments, rows
    \* ---- the ask proxy and the ingest proxy (POST), one request at a time
    ppc,             \* position of the handler: "idle", "fetching", "done", "threw"
    pRoute,          \* "ask" or "ingest"
    pReq,            \* the request body
    pSent,           \* what was sent to the backend, NotSent before
    pResp,           \* the response returned (status 0 while there is none), with
                     \* the status of the backend answer it was made from
    \* ---- one generateEmbeddings(texts) call on a loaded model
    bpc,             \* "idle", "running", "resolved", "rejected"
    bTexts,          \* the texts given
    bSlot,           \* per text: "pending", "done", "failed"
    bVec,            \* per text: what its generateEmbedding returned
    bDoneOrder,      \* the indexes of the texts in the order they completed
    bResult,         \* the list the call resolved to
    \* ---- the chat page: HomePage and ChatInterface, chat_messages
    curSession,      \* currentSessionId of HomePage, the sessionId prop
    created,         \* TRUE once createNewSession has made the new session
    messages,        \* the displayed list
    chatDb,          \* per session: its rows of chat_messages, by created_at
    loading,         \* the loading state
    hpc,             \* where the running handleSubmit waits, "idle" for none
    hSub,            \* submissions accepted so far; the last is the running one
    run,             \* what the closure of the last handleSubmit call holds
                     \* (its file, session and ingest result) and has done
    loads,           \* the sessions whose loadMessages call has not resumed
    openStreams,     \* per session: the open EventSources whose closure holds it
    streamingMessage \* TRUE when the streaming text is not empty

embedVars == <<embedder, isInitializing, initPromise, promiseState, loadsStarted,
               cpc, cop, cAwait, cStarted, cResult, disposedSince>>

ingestVars == <<ipc, ifile, chunks, embeddings, docId, insRes, log,
                failedAt, resp, store, userDocs, nextDoc, searchRes>>

proxyVars == <<spc, sStatus, backendLeft, out, closeCalls, sTopK, readLog,
               cancelled, backendOpen>>

clientVars == <<esState, seen, assistantResponse, savedMsgs, alerts>>

streamVars == <<proxyVars, clientVars>>

searchVars == <<qpc, qBody, qVec, qCount, qCalls, qRes, qResp, qPrev>>

forwardVars == <<ppc, pRoute, pReq, pSent, pResp>>

batchVars == <<bpc, bTexts, bSlot, bVec, bDoneOrder, bResult>>

chatVars == <<curSession, created, messages, chatDb, loading, hpc, hSub, run,
              loads, openStreams, streamingMessage>>

vars == <<embedVars, ingestVars, streamVars, searchVars, forwardVars, batchVars,
          chatVars>>

(***************************************************************************)
(* EmbeddingService (src/lib/embedding.ts)                                 *)
(***************************************************************************)
InitEmbed ==
    /\ embedder = FALSE
    /\ isInitializing = FALSE
    /\ initPromise = 0
    /\ promiseState = [p \in Promises |-> "none"]
    /\ loadsStarted = 0
    /\ cpc = [c \in Callers |-> "idle"]
    /\ cop = [c \in Callers |-> "none"]
    /\ cAwait = [c \in Callers |-> 0]
    /\ cStarted = [c \in Callers |-> 0]
    /\ cResult = [c \in Callers |-> "none"]
    /\ disposedSince = FALSE

\* _initialize() up to its await: one more model load is in flight.
StartLoad(c) ==
    /\ loadsStarted < MaxLoads
    /\ loadsStarted' = loadsStarted + 1
    /\ promiseState' = [promiseState EXCEPT ![loadsStarted + 1] = "pending"]
    /\ initPromise' = loadsStarted + 1
    /\ isInitializing' = TRUE
    /\ cAwait' = [cAwait EXCEPT ![c] = loadsStarted + 1]
    /\ cStarted' = [cStarted EXCEPT ![c] = @ + 1]
    /\ cpc' = [cpc EXCEPT ![c] = "owner"]

\* A seeded fault: initialize() without the isInitializing test.
InitializeCallUnguarded(c) ==
    IF embedder
    THEN /\ cpc' = [cpc EXCEPT ![c] = "afterInit"]
         /\ UNCHANGED <<isInitializing, initPromise, promiseState, loadsStarted,
                        cAwait, cStarted>>
    ELSE StartLoad(c)

\* A seeded fault: initialize() without the embedder test.
InitializeCallNoEmbedderTest(c) ==
    IF isInitializing
    THEN /\ cpc' = [cpc EXCEPT ![c] = "follow"]
         /\ cAwait' = [cAwait EXCEPT ![c] = initPromise]
         /\ UNCHANGED <<isInitializing, initPromise, promiseState, loadsStarted,
                        cStarted>>
    ELSE StartLoad(c)

\* initialize() up to its first await.
InitializeCall(c) ==
    IF embedder
    THEN /\ cpc' = [cpc EXCEPT ![c] = "afterInit"]
         /\ UNCHANGED <<isInitializing, initPromise, promiseState, loadsStarted,
                        cAwait, cStarted>>
    ELSE IF isInitializing
    THEN /\ cpc' = [cpc EXCEPT ![c] = "follow"]
         /\ cAwait' = [cAwait EXCEPT ![c] = initPromise]
         /\ UNCHANGED <<isInitializing, initPromise, promiseState, loadsStarted,
                        cStarted>>
    ELSE StartLoad(c)

\* A caller invokes initialize() itself (initializeEmbeddingService).
CallInitialize(c) ==
    /\ cpc[c] = "idle"
    /\ cop' = [cop EXCEPT ![c] = "initialize"]
    /\ InitializeCall(c)
    /\ UNCHANGED <<embedder, cResult, disposedSince, ingestVars, streamVars, searchVars, forwardVars, batchVars, chatVars>>

\* generateEmbedding(text) / generateEmbeddings(texts) up to the first await:
\* with no model the call goes through initialize(); with a model the
\* inference of the text (of every text of the batch) is started at once.
CallGenerate(c, op) ==
    /\ cpc[c] = "idle"
    /\ cop' = [cop EXCEPT ![c] = op]
    /\ IF ~embedder
       THEN InitializeCall(c)
       ELSE /\ cpc' = [cpc EXCEPT ![c] = "inferring"]
            /\ UNCHANGED <<isInitializing, initPromise, promiseState, loadsStarted,
                           cAwait, cStarted>>
    /\ UNCHANGED <<embedder, cResult, disposedSince, ingestVars, streamVars, searchVars, forwardVars, batchVars, chatVars>>

CallGenerateEmbedding(c) == CallGenerate(c, "generateEmbedding")

CallGenerateEmbeddings(c) == CallGenerate(c, "generateEmbeddings")

\* pipeline(...) resolves: _initialize stores the model and its promise fulfils.
LoadSucceeds(p) ==
    /\ promiseState[p] = "pending"
    /\ promiseState' = [promiseState EXCEPT ![p] = "fulfilled"]
    /\ embedder' = TRUE
    /\ disposedSince' = FALSE
    /\ UNCHANGED <<isInitializing, initPromise, loadsStarted, cpc, cop, cAwait,
                   cStarted, cResult, ingestVars, streamVars, searchVars, forwardVars, batchVars, chatVars>>

\* pipeline(...) rejects: _initialize rethrows and its promise rejects.
LoadFails(p) ==
    /\ promiseState[p] = "pending"
    /\ promiseState' = [promiseState EXCEPT ![p] = "rejected"]
    /\ UNCHANGED <<embedder, isInitializing, initPromise, loadsStarted, cpc, cop,
                   cAwait, cStarted, cResult, disposedSince, ingestVars,
                   streamVars, searchVars, forwardVars, batchVars, chatVars>>

\* A seeded fault: isInitializing is cleared after the await, not in a finally.
OwnerResumeNoFinally(c) ==
    /\ cpc[c] = "owner"
    /\ promiseState[cAwait[c]] \in {"fulfilled", "rejected"}
    /\ IF promiseState[cAwait[c]] = "fulfilled"
       THEN /\ isInitializing' = FALSE
            /\ cpc' = [cpc EXCEPT ![c] = "afterInit"]
            /\ UNCHANGED cResult
       ELSE /\ cpc' = [cpc EXCEPT ![c] = "done"]
            /\ cResult' = [cResult EXCEPT ![c] = "error"]
            /\ UNCHANGED isInitializing
    /\ UNCHANGED <<embedder, initPromise, promiseState, loadsStarted, cop, cAwait,
                   cStarted, disposedSince, ingestVars, streamVars, searchVars, forwardVars, batchVars, chatVars>>

\* The caller that started the load resumes after `await this.initPromise`:
\* the finally clears isInitializing; a rejection leaves the call by exception.
OwnerResume(c) ==
    /\ cpc[c] = "owner"
    /\ promiseState[cAwait[c]] \in {"fulfilled", "rejected"}
    /\ isInitializing' = FALSE
    /\ IF promiseState[cAwait[c]] = "fulfilled"
       THEN /\ cpc' = [cpc EXCEPT ![c] = "afterInit"]
            /\ UNCHANGED cResult
       ELSE /\ cpc' = [cpc EXCEPT ![c] = "done"]
            /\ cResult' = [cResult EXCEPT ![c] = "error"]
    /\ UNCHANGED <<embedder, initPromise, promiseState, loadsStarted, cop, cAwait,
                   cStarted, disposedSince, ingestVars, streamVars, searchVars, forwardVars, batchVars, chatVars>>

\* A caller that was handed the running initPromise resumes when it settles.
FollowerResume(c) ==
    /\ cpc[c] = "follow"
    /\ promiseState[cAwait[c]] \in {"fulfilled", "rejected"}
    /\ IF promiseState[cAwait[c]] = "fulfilled"
       THEN /\ cpc' = [cpc EXCEPT ![c] = "afterInit"]
            /\ UNCHANGED cResult
       ELSE /\ cpc' = [cpc EXCEPT ![c] = "done"]
            /\ cResult' = [cResult EXCEPT ![c] = "error"]
    /\ UNCHANGED <<embedder, isInitializing, initPromise, promiseState,
                   loadsStarted, cop, cAwait, cStarted, disposedSince, ingestVars,
                   streamVars, searchVars, forwardVars, batchVars, chatVars>>

\* The code after `await this.initialize()`: initialize() itself is done;
\* generateEmbedding(s) tests this.embedder again and starts the inference.
AfterInit(c) ==
    /\ cpc[c] = "afterInit"
    /\ IF cop[c] = "initialize"
       THEN /\ cpc' = [cpc EXCEPT ![c] = "done"]
            /\ cResult' = [cResult EXCEPT ![c] = "ok"]
       ELSE IF ~embedder
       THEN /\ cpc' = [cpc EXCEPT ![c] = "done"]
            /\ cResult' = [cResult EXCEPT ![c] = "error"]
       ELSE /\ cpc' = [cpc EXCEPT ![c] = "inferring"]
            /\ UNCHANGED cResult
    /\ UNCHANGED <<embedder, isInitializing, initPromise, promiseState,
                   loadsStarted, cop, cAwait, cStarted, disposedSince, ingestVars,
                   streamVars, searchVars, forwardVars, batchVars, chatVars>>

\* A fault variant: a failed inference drops the loaded model.
InferenceSettlesResetting(c, ok) ==
    /\ cpc[c] = "inferring"
    /\ cpc' = [cpc EXCEPT ![c] = "done"]
    /\ cResult' = [cResult EXCEPT ![c] = IF ok THEN "ok" ELSE "error"]
    /\ embedder' = (ok /\ embedder)
    /\ UNCHANGED <<isInitializing, initPromise, promiseState,
                   loadsStarted, cop, cAwait, cStarted, disposedSince, ingestVars,
                   streamVars, searchVars, forwardVars, batchVars, chatVars>>

\* The inference settles (for a batch: Promise.all over its texts): the call
\* returns the vectors, or rethrows what the model threw.
InferenceSettles(c, ok) ==
    /\ cpc[c] = "inferring"
    /\ cpc' = [cpc EXCEPT ![c] = "done"]
    /\ cResult' = [cResult EXCEPT ![c] = IF ok THEN "ok" ELSE "error"]
    /\ UNCHANGED <<embedder, isInitializing, initPromise, promiseState,
                   loadsStarted, cop, cAwait, cStarted, disposedSince, ingestVars,
                   streamVars, searchVars, forwardVars, batchVars, chatVars>>

\* The call is over; the same client may call the service again.
NextCall(c) ==
    /\ cpc[c] = "done"
    /\ cpc' = [cpc EXCEPT ![c] = "idle"]
    /\ cop' = [cop EXCEPT ![c] = "none"]
    /\ cAwait' = [cAwait EXCEPT ![c] = 0]
    /\ cStarted' = [cStarted EXCEPT ![c] = 0]
    /\ cResult' = [cResult EXCEPT ![c] = "none"]
    /\ UNCHANGED <<embedder, isInitializing, initPromise, promiseState,
                   loadsStarted, disposedSince, ingestVars, streamVars, searchVars, forwardVars, batchVars, chatVars>>

\* dispose(): drops the reference to a loaded model, if there is one.
Dispose ==
    /\ embedder
    /\ embedder' = FALSE
    /\ disposedSince' = TRUE
    /\ UNCHANGED <<isInitializing, initPromise, promiseState, loadsStarted, cpc,
                   cop, cAwait, cStarted, cResult, ingestVars, streamVars, searchVars, forwardVars, batchVars, chatVars>>

\* isReady(): reads this.embedder.
IsReady == embedder

NextEmbed ==
    \/ \E c \in Callers : CallInitialize(c)
    \/ \E c \in Callers : CallGenerateEmbedding(c)
    \/ \E c \in Callers : CallGenerateEmbeddings(c)
    \/ \E p \in Promises : LoadSucceeds(p)
    \/ \E p \in Promises : LoadFails(p)
    \/ \E c \in Callers : OwnerResume(c)
    \/ \E c \in Callers : FollowerResume(c)
    \/ \E c \in Callers : AfterInit(c)
    \/ \E c \in Callers, ok \in BOOLEAN : InferenceSettles(c, ok)
    \/ \E c \in Callers : NextCall(c)
    \/ Dispose

(***************************************************************************)
(* generateEmbedding on one text and generateEmbeddings on a list, with    *)
(* the model loaded (embedding.ts:58-75, 91-97)                            *)
(***************************************************************************)
\* A text is written as its runs: <<"a", 3>> for aaa; neighbouring runs have
\* different characters.
RECURSIVE TextLen(_)
TextLen(t) == IF t = <<>> THEN 0 ELSE Head(t)[2] + TextLen(Tail(t))

\* text.substring(0, n)
RECURSIVE Substring(_, _)
Substring(t, n) ==
    IF t = <<>> \/ n <= 0
    THEN <<>>
    ELSE IF Head(t)[2] <= n
         THEN <<Head(t)>> \o Substring(Tail(t), n - Head(t)[2])
         ELSE << <<Head(t)[1], n>> >>

\* A fault variant: texts of the budget's length are cut as well, one short.
TruncatedShort(t) ==
    IF TextLen(t) >= CharBudget THEN Substring(t, CharBudget - 1) ELSE t

\* const truncatedText = text.length > 2000 ? text.substring(0, 2000) : text
Truncated(t) == IF TextLen(t) > CharBudget THEN Substring(t, CharBudget) ELSE t

\* The vector of the model for the text it is given: texts that differ get
\* vectors that differ.
Encode(t) == [of |-> t]

\* generateEmbedding(text) when the model does not throw.
EmbeddingOf(t) == Encode(Truncated(t))

\* The texts explored: short, of the budget's length, and longer ones, two
\* of which begin with the same 2000 characters.
BatchTexts ==
    { << <<"a", 3>> >>,
      << <<"a", CharBudget>> >>,
      << <<"a", CharBudget>>, <<"b", 1>> >>,
      << <<"a", CharBudget>>, <<"c", 7>> >>,
      << <<"a", CharBudget - 1>>, <<"b", 5>> >> }

TextLists == UNION { [1..n -> BatchTexts] : n \in 0..MaxBatch }

InitBatch ==
    /\ bpc = "idle"
    /\ bTexts = <<>>
    /\ bSlot = <<>>
    /\ bVec = <<>>
    /\ bDoneOrder = <<>>
    /\ bResult = <<>>

\* generateEmbeddings(texts): texts.map starts generateEmbedding for every
\* text at once and Promise.all waits for them.
BatchCall(texts) ==
    /\ bpc = "idle"
    /\ bpc' = "running"
    /\ bTexts' = texts
    /\ bSlot' = [i \in 1..Len(texts) |-> "pending"]
    /\ bVec' = [i \in 1..Len(texts) |-> Encode(<<>>)]
    /\ UNCHANGED <<bDoneOrder, bResult, embedVars, ingestVars, streamVars,
                   searchVars, forwardVars, chatVars>>

\* The embedding of text i completes, in whatever order the model finishes.
EmbeddingCompletes(i) ==
    /\ bpc \in {"running", "rejected"}
    /\ i \in 1..Len(bTexts)
    /\ bSlot[i] = "pending"
    /\ bSlot' = [bSlot EXCEPT ![i] = "done"]
    /\ bVec' = [bVec EXCEPT ![i] = EmbeddingOf(bTexts[i])]
    /\ bDoneOrder' = Append(bDoneOrder, i)
    /\ UNCHANGED <<bpc, bTexts, bResult, embedVars, ingestVars, streamVars,
                   searchVars, forwardVars, chatVars>>

\* The embedding of text i throws: Promise.all rejects with the first
\* rejection and the catch of generateEmbeddings rethrows; no list is returned.
EmbeddingThrows(i) ==
    /\ bpc \in {"running", "rejected"}
    /\ i \in 1..Len(bTexts)
    /\ bSlot[i] = "pending"
    /\ bSlot' = [bSlot EXCEPT ![i] = "failed"]
    /\ bpc' = "rejected"
    /\ UNCHANGED <<bTexts, bVec, bDoneOrder, bResult, embedVars, ingestVars,
                   streamVars, searchVars, forwardVars, chatVars>>

\* A fault variant: the vectors are returned in the order they completed.
BatchResolvesInCompletionOrder ==
    /\ bpc = "running"
    /\ \A i \in 1..Len(bTexts) : bSlot[i] = "done"
    /\ bpc' = "resolved"
    /\ bResult' = [k \in 1..Len(bDoneOrder) |-> bVec[bDoneOrder[k]]]
    /\ UNCHANGED <<bTexts, bSlot, bVec, bDoneOrder, embedVars, ingestVars,
                   streamVars, searchVars, forwardVars, chatVars>>

\* Every embedding has completed: Promise.all resolves to the values in the
\* order of its input, whatever the order of completion.
BatchResolves ==
    /\ bpc = "running"
    /\ \A i \in 1..Len(bTexts) : bSlot[i] = "done"
    /\ bpc' = "resolved"
    /\ bResult' = [i \in 1..Len(bTexts) |-> bVec[i]]
    /\ UNCHANGED <<bTexts, bSlot, bVec, bDoneOrder, embedVars, ingestVars,
                   streamVars, searchVars, forwardVars, chatVars>>

NextBatch ==
    \/ \E texts \in TextLists : BatchCall(texts)
    \/ \E i \in 1..MaxBatch : EmbeddingCompletes(i)
    \/ \E i \in 1..MaxBatch : EmbeddingThrows(i)
    \/ BatchResolves

(***************************************************************************)
(* The collaborators of the ingest route, as far as the route sees them.   *)
(***************************************************************************)
\* What the Python backend's /ingest returns as chunks for a file: chunking
\* is a function of the file, so the same file gives the same chunks.
BackendChunks(f) == IF f = "a.pdf" THEN <<1, 2>> ELSE <<2, 3, 2>>

\* The vector the embedding model computes for a text.
EmbedVec(t) == 2 * t + 1

Abs(x) == IF x < 0 THEN -x ELSE x

\* 1 - (embedding <=> query_embedding), in hundredths: 100 for the same text,
\* falling with the distance of the two vectors.
CosinePct(e, q) == 100 - 45 * (Abs(e - q) \div 2)

\* generateEmbeddings(texts) when it succeeds: Promise.all keeps the order of
\* texts.map, so vector i belongs to text i.
GenerateEmbeddings(texts) == [i \in 1..Len(texts) |-> EmbedVec(texts[i])]

\* A seeded fault: the id of the previous document is used again.
NewDocIdStale == IF nextDoc = 0 THEN 1 ELSE nextDoc

\* uuidv4(): an id no earlier call has returned.
NewDocId == nextDoc + 1

\* A seeded fault: chunk indexes counted from 1.
ChunkDataOneBased(d, f, cs, es) ==
    { [id |-> <<d, i>>, doc_id |-> d, content |-> cs[i], embedding |-> es[i],
       source_name |-> f, chunk_index |-> i] : i \in 1..Len(cs) }

\* chunkData: one row per chunk, id `${docId}_${index}`, index from 0.
ChunkData(d, f, cs, es) ==
    { [id |-> <<d, i - 1>>, doc_id |-> d, content |-> cs[i], embedding |-> es[i],
       source_name |-> f, chunk_index |-> i - 1] : i \in 1..Len(cs) }

RowsOf(d) == {row \in store : row.doc_id = d}

VisibleIndexes(d) == {row.chunk_index : row \in RowsOf(d)}

(***************************************************************************)
(* search_document_chunks (supabase_schema.sql)                            *)
(***************************************************************************)
Match(row, q) ==
    [id |-> row.id, doc_id |-> row.doc_id, content |-> row.content,
     source_name |-> row.source_name, chunk_index |-> row.chunk_index,
     similarity |-> CosinePct(row.embedding, q)]

\* A fault variant: rows at the threshold pass as well.
CandidatesInclusive(rows, q, threshold) ==
    {Match(row, q) : row \in {x \in rows : CosinePct(x.embedding, q) >= threshold}}

\* WHERE 1 - (embedding <=> query_embedding) > match_threshold
Candidates(rows, q, threshold) ==
    {Match(row, q) : row \in {x \in rows : CosinePct(x.embedding, q) > threshold}}

\* The lists of the n nearest of cands, nearest first; SQL leaves the order
\* of rows at the same distance open, so every order of a tie is a result.
RECURSIVE NearestFirst(_, _)
NearestFirst(cands, n) ==
    IF n = 0 \/ cands = {}
    THEN {<<>>}
    ELSE LET best == {c \in cands : \A d \in cands : c.similarity >= d.similarity}
         IN UNION { {<<c>> \o s : s \in NearestFirst(cands \ {c}, n - 1)} : c \in best }

\* ORDER BY embedding <=> query_embedding LIMIT match_count
SearchDocumentChunks(rows, q, threshold, count) ==
    NearestFirst(Candidates(rows, q, threshold), count)

(***************************************************************************)
(* The hybrid ingest route (POST, Python extraction + JavaScript vectors)  *)
(***************************************************************************)
NoResp == [ok |-> FALSE, status |-> 0, reason |-> "", fields |-> {},
           doc_id |-> 0, chunks |-> 0]

PlainFailure == {"ok", "reason"}
CaughtFailure == {"ok", "reason", "error_type"}
SuccessFields == {"ok", "doc_id", "chunks", "processing_time", "metadata"}

InitIngest ==
    /\ ipc = [r \in Ingests |-> "idle"]
    /\ ifile = [r \in Ingests |-> NoFile]
    /\ chunks = [r \in Ingests |-> <<>>]
    /\ embeddings = [r \in Ingests |-> <<>>]
    /\ docId = [r \in Ingests |-> 0]
    /\ insRes = [r \in Ingests |-> "none"]
    /\ log = [r \in Ingests |-> <<>>]
    /\ failedAt = [r \in Ingests |-> "none"]
    /\ resp = [r \in Ingests |-> NoResp]
    /\ store = {}
    /\ userDocs = {}
    /\ nextDoc = 0
    /\ searchRes = {}

\* return NextResponse.json({ ok: false, reason, ... }, { status })
Fail(r, status, reason, fields, stage) ==
    /\ ipc' = [ipc EXCEPT ![r] = "done"]
    /\ failedAt' = [failedAt EXCEPT ![r] = stage]
    /\ resp' = [resp EXCEPT ![r] = [ok |-> FALSE, status |-> status,
                                    reason |-> reason, fields |-> fields,
                                    doc_id |-> 0, chunks |-> 0]]

\* return NextResponse.json({ ok: true, doc_id: docId, chunks: chunks.length, ... })
Succeed(r) ==
    /\ ipc' = [ipc EXCEPT ![r] = "done"]
    /\ resp' = [resp EXCEPT ![r] = [ok |-> TRUE, status |-> 200, reason |-> "",
                                    fields |-> SuccessFields,
                                    doc_id |-> docId[r],
                                    chunks |-> Len(chunks[r])]]
    /\ UNCHANGED failedAt

\* The request arrives: the file is checked and the backend is called. A body
\* that is no form data (or a file field that is no file) throws and is
\* answered by the route's catch.
IngestReceive(r, f) ==
    /\ ipc[r] = "idle"
    /\ ifile' = [ifile EXCEPT ![r] = f]
    /\ IF f = Malformed
       THEN Fail(r, 500, "indexing_failed", CaughtFailure, "input") /\ UNCHANGED log
       ELSE IF f = NoFile
       THEN Fail(r, 400, "no_file", PlainFailure, "input") /\ UNCHANGED log
       ELSE IF f \notin PdfFiles
       THEN Fail(r, 400, "not_pdf", PlainFailure, "input") /\ UNCHANGED log
       ELSE /\ ipc' = [ipc EXCEPT ![r] = "extracting"]
            /\ log' = [log EXCEPT ![r] = Append(@, "extract")]
            /\ UNCHANGED <<failedAt, resp>>
    /\ UNCHANGED <<chunks, embeddings, docId, insRes, store, userDocs, nextDoc,
                   searchRes, embedVars, streamVars, searchVars, forwardVars, batchVars, chatVars>>

\* A fault variant: the backend's answer is taken as it comes, and the
\* embedding is started on whatever chunk list it holds.
BackendAnswersUnchecked(r, kind, status) ==
    /\ ipc[r] = "extracting"
    /\ chunks' = [chunks EXCEPT ![r] =
                     IF kind = "chunks" THEN BackendChunks(ifile[r]) ELSE <<>>]
    /\ ipc' = [ipc EXCEPT ![r] = "embedding"]
    /\ log' = [log EXCEPT ![r] = Append(@, "embed")]
    /\ UNCHANGED <<failedAt, resp>>
    /\ UNCHANGED <<ifile, embeddings, docId, insRes, store, userDocs,
                   nextDoc, searchRes, embedVars, streamVars, searchVars, forwardVars, batchVars, chatVars>>

\* The backend call settles. kind: the fetch rejects; a non-OK status with a
\* JSON body or with a body that is no JSON; an OK status whose body says
\* ok false; an OK body saying ok true that holds no chunk list; chunks
\* without metadata; an empty chunk list; chunks.
BackendAnswers(r, kind, status) ==
    /\ ipc[r] = "extracting"
    /\ CASE kind = "reject" ->
              Fail(r, 500, "indexing_failed", CaughtFailure, "extract")
              /\ UNCHANGED <<chunks, log>>
         [] kind = "httpError" ->
              Fail(r, status, "backend_detail", PlainFailure, "extract")
              /\ UNCHANGED <<chunks, log>>
         [] kind = "httpErrorNoJson" ->
              Fail(r, 500, "indexing_failed", CaughtFailure, "extract")
              /\ UNCHANGED <<chunks, log>>
         [] kind = "notOk" ->
              Fail(r, 400, "backend_reason", PlainFailure, "extract")
              /\ UNCHANGED <<chunks, log>>
         [] kind = "noChunkList" ->
              Fail(r, 400, "no_chunk_list", PlainFailure, "chunk")
              /\ UNCHANGED <<chunks, log>>
         [] kind = "noMetadata" ->
              Fail(r, 500, "indexing_failed", CaughtFailure, "chunk")
              /\ UNCHANGED <<chunks, log>>
         [] kind = "noChunks" ->
              Fail(r, 400, "no_chunks", PlainFailure, "chunk")
              /\ UNCHANGED <<chunks, log>>
         [] kind = "chunks" ->
              /\ chunks' = [chunks EXCEPT ![r] = BackendChunks(ifile[r])]
              /\ ipc' = [ipc EXCEPT ![r] = "embedding"]
              /\ log' = [log EXCEPT ![r] = Append(@, "embed")]
              /\ UNCHANGED <<failedAt, resp>>
    /\ UNCHANGED <<ifile, embeddings, docId, insRes, store, userDocs,
                   nextDoc, searchRes, embedVars, streamVars, searchVars, forwardVars, batchVars, chatVars>>

BackendKinds == {"reject", "httpError", "httpErrorNoJson", "notOk", "noChunkList", "noMetadata",
                 "noChunks", "chunks"}

\* generateEmbeddings(chunks) settles: a throw is caught by the route's catch;
\* otherwise the document id is drawn, chunkData is built and the insert sent.
EmbeddingAnswers(r, ok) ==
    /\ ipc[r] = "embedding"
    /\ IF ok
       THEN /\ embeddings' = [embeddings EXCEPT ![r] = GenerateEmbeddings(chunks[r])]
            /\ docId' = [docId EXCEPT ![r] = NewDocId]
            /\ nextDoc' = nextDoc + 1
            /\ ipc' = [ipc EXCEPT ![r] = "inserting"]
            /\ log' = [log EXCEPT ![r] = Append(@, "store")]
            /\ UNCHANGED <<failedAt, resp>>
       ELSE /\ Fail(r, 500, "indexing_failed", CaughtFailure, "embed")
            /\ UNCHANGED <<embeddings, docId, nextDoc, log>>
    /\ UNCHANGED <<ifile, chunks, insRes, store, userDocs, searchRes,
                   embedVars, streamVars, searchVars, forwardVars, batchVars, chatVars>>


\* A seeded fault: the rows are written one insert at a time.
StoreInsertRowByRow(r, outcome) ==
    /\ ipc[r] = "inserting"
    /\ LET rows == ChunkData(docId[r], ifile[r], chunks[r], embeddings[r])
           left == rows \ store
       IN IF left = {}
          THEN /\ insRes' = [insRes EXCEPT ![r] = "ok"]
               /\ ipc' = [ipc EXCEPT ![r] = "inserted"]
               /\ UNCHANGED store
          ELSE /\ store' = store \cup
                     {CHOOSE x \in left : \A y \in left : x.chunk_index <= y.chunk_index}
               /\ UNCHANGED <<insRes, ipc>>
    /\ UNCHANGED <<ifile, chunks, embeddings, docId, log, failedAt, resp,
                   userDocs, nextDoc, searchRes, embedVars, streamVars, searchVars, forwardVars, batchVars, chatVars>>

\* The database runs the insert of chunkData, one statement for all rows: a
\* row whose id is taken fails the statement (id is the primary key);
\* otherwise the rows are committed together ("ok"), or the statement fails
\* and writes nothing ("rejected"), or the rows are committed and the answer
\* never reaches the client, which reports an error ("lost").
StoreInsert(r, outcome) ==
    /\ ipc[r] = "inserting"
    /\ LET rows == ChunkData(docId[r], ifile[r], chunks[r], embeddings[r])
       IN IF \E x \in rows, y \in store : x.id = y.id
          THEN /\ insRes' = [insRes EXCEPT ![r] = "conflict"]
               /\ UNCHANGED store
          ELSE /\ insRes' = [insRes EXCEPT ![r] =
                                IF outcome = "ok" THEN "ok" ELSE "error"]
               /\ store' = IF outcome = "rejected" THEN store ELSE store \cup rows
    /\ ipc' = [ipc EXCEPT ![r] = "inserted"]
    /\ UNCHANGED <<ifile, chunks, embeddings, docId, log, failedAt, resp,
                   userDocs, nextDoc, searchRes, embedVars, streamVars, searchVars, forwardVars, batchVars, chatVars>>

InsertOutcomes == {"ok", "rejected", "lost"}

\* A seeded fault: a failed insert is sent again.
InsertReturnsRetry(r, l) ==
    /\ ipc[r] = "inserted"
    /\ IF insRes[r] # "ok"
       THEN /\ ipc' = [ipc EXCEPT ![r] = "inserting"]
            /\ log' = [log EXCEPT ![r] = Append(@, "store")]
            /\ UNCHANGED <<failedAt, resp>>
       ELSE Succeed(r) /\ UNCHANGED log
    /\ UNCHANGED <<ifile, chunks, embeddings, docId, insRes, store,
                   userDocs, nextDoc, searchRes, embedVars, streamVars, searchVars, forwardVars, batchVars, chatVars>>

\* A seeded fault: insertError is not looked at.
InsertReturnsUnchecked(r, l) ==
    /\ ipc[r] = "inserted"
    /\ Succeed(r)
    /\ UNCHANGED <<ifile, chunks, embeddings, docId, insRes, log, store,
                   userDocs, nextDoc, searchRes, embedVars, streamVars, searchVars, forwardVars, batchVars, chatVars>>

\* The route resumes after the insert: an insertError ends the request with
\* status 500; otherwise the user_documents row is sent when the request
\* carried a user and a session (l, read here for the first time), and else
\* the success response is returned.
InsertReturns(r, l) ==
    /\ ipc[r] = "inserted"
    /\ IF insRes[r] # "ok"
       THEN Fail(r, 500, "db_save_failed", PlainFailure, "store") /\ UNCHANGED log
       ELSE IF l
       THEN /\ ipc' = [ipc EXCEPT ![r] = "savingDoc"]
            /\ log' = [log EXCEPT ![r] = Append(@, "userdoc")]
            /\ UNCHANGED <<failedAt, resp>>
       ELSE Succeed(r) /\ UNCHANGED log
    /\ UNCHANGED <<ifile, chunks, embeddings, docId, insRes, store,
                   userDocs, nextDoc, searchRes, embedVars, streamVars, searchVars, forwardVars, batchVars, chatVars>>

\* The insert into user_documents settles; its failure is only logged.
UserDocAnswers(r, ok) ==
    /\ ipc[r] = "savingDoc"
    /\ userDocs' = IF ok
                   THEN userDocs \cup {[doc_id |-> docId[r], filename |-> ifile[r],
                                        chunks_count |-> Len(chunks[r])]}
                   ELSE userDocs
    /\ Succeed(r)
    /\ UNCHANGED <<ifile, chunks, embeddings, docId, insRes, log, store,
                   nextDoc, searchRes, embedVars, streamVars, searchVars, forwardVars, batchVars, chatVars>>

\* A search request reads the table: the rpc of the search route, with the
\* route's threshold and a top_k that does not cut the result short, so that
\* it returns every row above the threshold (in some order).
Search(t) ==
    /\ searchRes' = {<<m.doc_id, m.chunk_index>> :
                        m \in Candidates(store, EmbedVec(t), FloorPct)}
    /\ UNCHANGED <<ipc, ifile, chunks, embeddings, docId, insRes, log,
                   failedAt, resp, store, userDocs, nextDoc, embedVars, streamVars, searchVars, forwardVars, batchVars, chatVars>>

NextIngest ==
    \/ \E r \in Ingests, f \in PdfFiles \cup OtherFiles \cup {NoFile, Malformed} :
          IngestReceive(r, f)
    \/ \E r \in Ingests, kind \in BackendKinds, status \in BackendStatuses :
          BackendAnswers(r, kind, status)
    \/ \E r \in Ingests, ok \in BOOLEAN : EmbeddingAnswers(r, ok)
    \/ \E r \in Ingests, outcome \in InsertOutcomes : StoreInsert(r, outcome)
    \/ \E r \in Ingests, l \in BOOLEAN : InsertReturns(r, l)
    \/ \E r \in Ingests, ok \in BOOLEAN : UserDocAnswers(r, ok)
    \/ \E t \in Texts : Search(t)

(***************************************************************************)
(* The search route (POST): question embedding, then search_document_chunks*)
(***************************************************************************)
\* The tables a search can meet: what up to MaxStoredDocs ingests that
\* succeeded have stored, document d holding the chunks of its file.
RECURSIVE StoredBy(_)
StoredBy(files) ==
    IF files = <<>>
    THEN {}
    ELSE LET d == Len(files)
             f == files[d]
         IN StoredBy(SubSeq(files, 1, d - 1)) \cup
            ChunkData(d, f, BackendChunks(f), GenerateEmbeddings(BackendChunks(f)))

StoredFiles == UNION { [1..n -> PdfFiles] : n \in 0..MaxStoredDocs }

\* The request bodies explored. A body that is no JSON makes request.json()
\* throw; a JSON body may lack the question or the top_k.
QuestionText(q) == IF q = "q2" THEN 2 ELSE 4

SearchBodies ==
    {[json |-> FALSE, question |-> "missing", has_top_k |-> FALSE, top_k |-> 0]}
    \cup {[json |-> TRUE, question |-> q, has_top_k |-> FALSE, top_k |-> 0] :
             q \in {"missing", "", "  ", "q2", "q4"}}
    \cup {[json |-> TRUE, question |-> q, has_top_k |-> TRUE, top_k |-> k] :
             q \in {"q2", "q4"}, k \in {-1, 0, 1, 2}}

\* const { question, top_k = 5 } = body
BodyTopK(body) == IF body.has_top_k THEN body.top_k ELSE 5

NoSearchResp ==
    [status |-> 0, ok |-> FALSE, reason |-> "", fields |-> {},
     results |-> <<>>, total_results |-> 0]

NoRpc == [error |-> FALSE, data |-> <<>>]

NoExecution == [vec |-> 0, count |-> 0, rows |-> <<>>]

EmptyFields ==
    {"ok", "results", "contexts", "metadatas", "processing_time", "total_results"}

FullFields == EmptyFields \cup {"stats"}

InitSearch ==
    /\ qpc = "idle"
    /\ qBody = [json |-> FALSE, question |-> "missing", has_top_k |-> FALSE, top_k |-> 0]
    /\ qVec = 0
    /\ qCount = 0
    /\ qCalls = [embedding |-> 0, rpc |-> 0]
    /\ qRes = NoRpc
    /\ qResp = NoSearchResp
    /\ qPrev = NoExecution

SearchFail(status, reason, fields) ==
    /\ qpc' = "done"
    /\ qResp' = [status |-> status, ok |-> FALSE, reason |-> reason,
                 fields |-> fields, results |-> <<>>, total_results |-> 0]

\* The request arrives. request.json() throws on a body that is no JSON (the
\* catch answers 500); a missing or blank question is answered 400;
\* otherwise generateEmbedding(question) is called.
SearchReceive(body) ==
    /\ qpc = "idle"
    /\ qBody' = body
    /\ IF ~body.json
       THEN SearchFail(500, "search_failed", CaughtFailure) /\ UNCHANGED qCalls
       ELSE IF body.question \in {"missing", "", "  "}
       THEN SearchFail(400, "no_question", PlainFailure) /\ UNCHANGED qCalls
       ELSE /\ qpc' = "embedding"
            /\ qCalls' = [qCalls EXCEPT !.embedding = @ + 1]
            /\ UNCHANGED qResp
    /\ UNCHANGED <<qVec, qCount, qRes, qPrev, embedVars, ingestVars, streamVars, forwardVars, batchVars, chatVars>>

\* generateEmbedding settles: a throw goes to the catch, otherwise the rpc is
\* called with the vector, the threshold 0.1 and match_count: top_k.
QueryEmbeddingAnswers(ok) ==
    /\ qpc = "embedding"
    /\ IF ok
       THEN /\ qVec' = EmbedVec(QuestionText(qBody.question))
            /\ qCount' = BodyTopK(qBody)
            /\ qCalls' = [qCalls EXCEPT !.rpc = @ + 1]
            /\ qpc' = "searching"
            /\ UNCHANGED qResp
       ELSE /\ SearchFail(500, "search_failed", CaughtFailure)
            /\ UNCHANGED <<qVec, qCount, qCalls>>
    /\ UNCHANGED <<qBody, qRes, qPrev, embedVars, ingestVars, streamVars, forwardVars, batchVars, chatVars>>

\* return NextResponse.json({ ok: true, results: searchResults, ... })
SearchSucceed(rows) ==
    /\ qpc' = "done"
    /\ qResp' = [status |-> 200, ok |-> TRUE, reason |-> "",
                 fields |-> IF rows = <<>> THEN EmptyFields ELSE FullFields,
                 results |-> rows, total_results |-> Len(rows)]

\* What the database can answer the rpc with: the function's rows; LIMIT
\* refuses a negative count.
RpcRows ==
    IF qCount < 0 THEN {} ELSE SearchDocumentChunks(store, qVec, FloorPct, qCount)

\* A fault variant: a search error is answered like an empty result.
SearchRpcAnswersLenient(failed) ==
    /\ qpc = "searching"
    /\ IF failed \/ RpcRows = {}
       THEN /\ qRes' = [error |-> TRUE, data |-> <<>>]
            /\ SearchSucceed(<<>>)
       ELSE \E rows \in RpcRows :
               /\ qRes' = [error |-> FALSE, data |-> rows]
               /\ SearchSucceed(rows)
    /\ UNCHANGED <<qBody, qVec, qCount, qCalls, qPrev,
                   embedVars, ingestVars, streamVars, forwardVars, batchVars, chatVars>>

\* The rpc settles: with an error (answered 500), or with the rows of
\* search_document_chunks, which the route returns as they are; no rows are
\* a success with empty lists.
SearchRpcAnswers(failed) ==
    /\ qpc = "searching"
    /\ IF failed \/ RpcRows = {}
       THEN /\ qRes' = [error |-> TRUE, data |-> <<>>]
            /\ SearchFail(500, "search_failed", PlainFailure)
       ELSE \E rows \in RpcRows :
               /\ qRes' = [error |-> FALSE, data |-> rows]
               /\ SearchSucceed(rows)
    /\ UNCHANGED <<qBody, qVec, qCount, qCalls, qPrev,
                   embedVars, ingestVars, streamVars, forwardVars, batchVars, chatVars>>

\* The response is sent; the handler is free for the next request, and what
\* its rpc was asked and returned is kept for comparison.
SearchNext ==
    /\ qpc = "done"
    /\ qPrev' = IF qCalls.rpc > 0 /\ ~qRes.error
                THEN [vec |-> qVec, count |-> qCount, rows |-> qRes.data]
                ELSE qPrev
    /\ qpc' = "idle"
    /\ qVec' = 0
    /\ qCount' = 0
    /\ qCalls' = [embedding |-> 0, rpc |-> 0]
    /\ qRes' = NoRpc
    /\ qResp' = NoSearchResp
    /\ UNCHANGED <<qBody, embedVars, ingestVars, streamVars, forwardVars, batchVars, chatVars>>

NextSearch ==
    \/ \E body \in SearchBodies : SearchReceive(body)
    \/ \E ok \in BOOLEAN : QueryEmbeddingAnswers(ok)
    \/ \E failed \in BOOLEAN : SearchRpcAnswers(failed)
    \/ SearchNext

(***************************************************************************)
(* The ask proxy (POST /ask) and the ingest proxy (src/app/api/ingest)     *)
(***************************************************************************)
\* The bodies of ask requests explored: no JSON at all, or an object whose
\* question and top_k are given with their JSON type.
AskBodies ==
    {[json |-> FALSE, qtype |-> "absent", question |-> "", ktype |-> "absent", top_k |-> ""]}
    \cup {[json |-> TRUE, qtype |-> qt[1], question |-> qt[2], ktype |-> "absent", top_k |-> ""] :
             qt \in {<<"absent", "">>, <<"string", "">>, <<"string", "  ">>,
                     <<"number", "7">>, <<"string", "q">>}}
    \cup {[json |-> TRUE, qtype |-> "string", question |-> "q", ktype |-> kt[1], top_k |-> kt[2]] :
             kt \in {<<"number", "3">>, <<"number", "0">>, <<"number", "-1">>,
                     <<"number", "2.5">>, <<"string", "3">>}}

\* The bodies of ingest requests explored: no form data, a form without a
\* file, a form whose file field is a string, a form with a file.
IngestBodies == {"notForm", "noFile", "textField", "file"}

\* What the backend answers: a status and a body that is JSON or not.
BackendAnswerStatuses == {200, 201, 404, 500}

\* res.ok: a status from 200 to 299.
ResOk(status) == status \in 200..299

BackendBodies == {"notJson", "okTrue", "okFalse", "detail"}

\* The fields of the parsed body; res.json().catch(() => ({})) gives {}.
DataFields(body) ==
    CASE body = "okTrue" -> {"ok", "answer"}
      [] body = "okFalse" -> {"ok", "reason"}
      [] body = "detail" -> {"detail"}
      [] OTHER -> {}

NotSent == [question |-> "", top_k |-> "", file |-> FALSE, calls |-> 0]

NoProxyResp == [status |-> 0, fields |-> {}, upstream |-> 0, data |-> "none"]

InitForward ==
    /\ ppc = "idle"
    /\ pRoute = "ask"
    /\ pReq = "none"
    /\ pSent = NotSent
    /\ pResp = NoProxyResp

\* typeof body?.top_k === "number" ? body.top_k : 5
AskTopK(body) == IF body.json /\ body.ktype = "number" THEN body.top_k ELSE "5"

\* POST of the ask proxy up to its fetch: an unparsable body counts as null;
\* a question that is missing, empty or no string is answered 400.
AskProxyReceive(body) ==
    /\ ppc = "idle"
    /\ pRoute' = "ask"
    /\ pReq' = body
    /\ IF ~body.json \/ body.qtype # "string" \/ body.question = ""
       THEN /\ ppc' = "done"
            /\ pResp' = [status |-> 400, fields |-> {"ok", "reason"}, upstream |-> 0, data |-> "none"]
            /\ pSent' = NotSent
       ELSE /\ ppc' = "fetching"
            /\ pSent' = [question |-> body.question, top_k |-> AskTopK(body),
                         file |-> FALSE, calls |-> 1]
            /\ pResp' = NoProxyResp
    /\ UNCHANGED <<embedVars, ingestVars, streamVars, searchVars, batchVars, chatVars>>

\* POST of the ingest proxy up to its fetch: req.formData() is awaited
\* outside any try, so a body that is no form data throws out of the handler;
\* a file field that is no File is answered 400.
IngestProxyReceive(body) ==
    /\ ppc = "idle"
    /\ pRoute' = "ingest"
    /\ pReq' = body
    /\ pResp' = IF body \in {"noFile", "textField"}
                THEN [status |-> 400, fields |-> {"ok", "reason"}, upstream |-> 0, data |-> "none"]
                ELSE NoProxyResp
    /\ ppc' = CASE body = "notForm" -> "threw"
                [] body = "file" -> "fetching"
                [] OTHER -> "done"
    /\ pSent' = IF body = "file"
                THEN [NotSent EXCEPT !.file = TRUE, !.calls = 1]
                ELSE NotSent
    /\ UNCHANGED <<embedVars, ingestVars, streamVars, searchVars, batchVars, chatVars>>

\* The fetch rejects (the backend cannot be reached): the await is in no
\* try, so the exception leaves the handler.
ProxyFetchRejects ==
    /\ ppc = "fetching"
    /\ ppc' = "threw"
    /\ UNCHANGED <<pRoute, pReq, pSent, pResp,
                   embedVars, ingestVars, streamVars, searchVars, batchVars, chatVars>>

\* A fault variant: the backend's status is passed on as it is.
ProxyFetchAnswersPassThrough(status, body) ==
    /\ ppc = "fetching"
    /\ ppc' = "done"
    /\ pResp' = [status |-> status,
                 fields |-> DataFields(body), upstream |-> status, data |-> body]
    /\ UNCHANGED <<pRoute, pReq, pSent, embedVars, ingestVars, streamVars, searchVars, batchVars, chatVars>>

\* The backend answers: the parsed body ({} when it is no JSON) is returned
\* with status 200 when res.ok and 500 otherwise.
ProxyFetchAnswers(status, body) ==
    /\ ppc = "fetching"
    /\ ppc' = "done"
    /\ pResp' = [status |-> IF ResOk(status) THEN 200 ELSE 500,
                 fields |-> DataFields(body), upstream |-> status, data |-> body]
    /\ UNCHANGED <<pRoute, pReq, pSent, embedVars, ingestVars, streamVars, searchVars, batchVars, chatVars>>

\* The handler has ended; the next request arrives.
ProxyNext ==
    /\ ppc \in {"done", "threw"}
    /\ ppc' = "idle"
    /\ pSent' = NotSent
    /\ pResp' = NoProxyResp
    /\ UNCHANGED <<pRoute, pReq, embedVars, ingestVars, streamVars, searchVars, batchVars, chatVars>>

NextForward ==
    \/ \E body \in AskBodies : AskProxyReceive(body)
    \/ \E body \in IngestBodies : IngestProxyReceive(body)
    \/ ProxyFetchRejects
    \/ \E status \in BackendAnswerStatuses, body \in BackendBodies :
          ProxyFetchAnswers(status, body)
    \/ ProxyNext

(***************************************************************************)
(* The ask-stream proxy (src/app/api/ask-stream/route.ts, GET)             *)
(***************************************************************************)
\* How the text of an event ends. A server-sent event is dispatched by its
\* reader when a blank line ends it, that is on two line feeds.
BlankLine == <<"LF", "LF">>

\* The end of the events the proxy writes itself: the template literals end in
\* \\n\\n, which JavaScript reads as a backslash, an n, a backslash, an n.
ProxyTail == <<"\\", "n", "\\", "n">>

\* The events of the Python backend, each read as one chunk and well framed.
ContentEvent(i) == [type |-> "content", n |-> i, msg |-> "", tail |-> BlankLine]
SourcesEvent == [type |-> "sources", n |-> 0, msg |-> "", tail |-> BlankLine]
DoneEvent == [type |-> "done", n |-> 0, msg |-> "", tail |-> BlankLine]
BackendErrorEvent == [type |-> "error", n |-> 0, msg |-> "backend", tail |-> BlankLine]

\* controller.enqueue(`data: ${JSON.stringify({ type: 'error', ... })}\\n\\n`)
ProxyErrorEvent(msg) == [type |-> "error", n |-> 0, msg |-> msg, tail |-> ProxyTail]

\* The message of the error event per failure of the fetch.
FetchFailureMessage(kind) ==
    IF kind = "reject" THEN "response_failed"
    ELSE IF kind = "notOk" THEN "backend_status"
    ELSE "no_reader"

\* The answer streams of the backend: content events in order, the sources,
\* then one terminal event.
BackendStreams ==
    { [i \in 1..k |-> ContentEvent(i)] \o mid \o <<term>> :
        k \in 0..MaxDeltas, mid \in {<<>>, <<SourcesEvent>>},
        term \in {DoneEvent, BackendErrorEvent} }

InitStream ==
    /\ spc = "idle"
    /\ sStatus = 0
    /\ backendLeft = <<>>
    /\ out = <<>>
    /\ closeCalls = 0
    /\ sTopK = "none"
    /\ readLog = <<>>
    /\ cancelled = FALSE
    /\ backendOpen = FALSE
    /\ esState = "none"
    /\ seen = 0
    /\ assistantResponse = <<>>
    /\ savedMsgs = <<>>
    /\ alerts = 0

\* !question?.trim(): a missing or blank question.
QuestionMissing(q) == q \in {"missing", "", "  "}

\* The top_k parameters explored; "absent" is searchParams.get giving null.
TopKParams == {"absent", "", "3", "0", "-1", "2.5", "abc"}

\* parseInt(str).toString() on the parameters explored: the text of the
\* leading integer of str, "NaN" when it has none.
ParseInt(str) ==
    CASE str \in {"3", "5", "0", "-1"} -> str
      [] str = "2.5" -> "2"
      [] OTHER -> "NaN"

\* topK.toString() of topK = parseInt(searchParams.get('top_k') || '5')
StreamTopK(k) == ParseInt(IF k \in {"absent", ""} THEN "5" ELSE k)

\* The request arrives: a missing question is answered 400, otherwise the
\* backend's /ask-stream is fetched with the question and topK.toString().
AskReceive(q, k) ==
    /\ spc = "idle"
    /\ IF QuestionMissing(q)
       THEN spc' = "rejected" /\ sStatus' = 400 /\ UNCHANGED sTopK
       ELSE spc' = "fetching" /\ sTopK' = StreamTopK(k) /\ UNCHANGED sStatus
    /\ esState' = "open"
    /\ UNCHANGED <<backendLeft, out, closeCalls, readLog, cancelled, backendOpen,
                   seen, assistantResponse, savedMsgs, alerts,
                   embedVars, ingestVars, searchVars, forwardVars, batchVars, chatVars>>

\* The fetch settles. It rejects (the catch builds errorStream), or answers
\* with a non-OK status (errorStream), or with no body (the stream's start
\* finds no reader): each enqueues one error event and closes. Otherwise the
\* stream's start takes the reader of the backend's body and begins to read.
BackendFetchAnswers(kind, body) ==
    /\ spc = "fetching"
    /\ sStatus' = 200
    /\ IF kind \in {"reject", "notOk", "noBody"}
       THEN /\ out' = Append(out, ProxyErrorEvent(FetchFailureMessage(kind)))
            /\ closeCalls' = closeCalls + 1
            /\ spc' = "closed"
            /\ UNCHANGED <<backendLeft, backendOpen>>
       ELSE /\ backendLeft' = body
            /\ backendOpen' = TRUE
            /\ spc' = "streaming"
            /\ UNCHANGED <<out, closeCalls>>
    /\ UNCHANGED <<sTopK, readLog, cancelled, clientVars, embedVars, ingestVars, searchVars, forwardVars, batchVars, chatVars>>

FetchKinds == {"reject", "notOk", "noBody", "stream"}

\* What the loop's exit does once the response stream is cancelled: enqueue
\* and close throw on a stream that is no longer readable, so the catch's
\* enqueue throws too, the finally calls close(), which throws, and start()
\* ends; nothing in the handler cancels or releases the reader.
LoopAbandoned ==
    /\ closeCalls' = closeCalls + 1
    /\ spc' = "aborted"
    /\ UNCHANGED out

\* A fault variant: the chunk read is dropped.
ProxyReadChunkDropping ==
    /\ spc = "streaming"
    /\ backendLeft # <<>>
    /\ readLog' = Append(readLog, Head(backendLeft))
    /\ backendLeft' = Tail(backendLeft)
    /\ UNCHANGED <<spc, closeCalls, out>>
    /\ UNCHANGED <<sStatus, sTopK, cancelled, backendOpen, clientVars,
                   embedVars, ingestVars, searchVars, forwardVars, batchVars, chatVars>>

\* reader.read() gives the next chunk: it is enqueued as it is.
ProxyReadChunk ==
    /\ spc = "streaming"
    /\ backendLeft # <<>>
    /\ readLog' = Append(readLog, Head(backendLeft))
    /\ backendLeft' = Tail(backendLeft)
    /\ IF cancelled
       THEN LoopAbandoned
       ELSE out' = Append(out, Head(backendLeft)) /\ UNCHANGED <<spc, closeCalls>>
    /\ UNCHANGED <<sStatus, sTopK, cancelled, backendOpen, clientVars,
                   embedVars, ingestVars, searchVars, forwardVars, batchVars, chatVars>>

\* reader.read() reports done: the loop ends and the finally closes.
ProxyReadDone ==
    /\ spc = "streaming"
    /\ backendLeft = <<>>
    /\ backendOpen' = FALSE
    /\ IF cancelled
       THEN LoopAbandoned
       ELSE closeCalls' = closeCalls + 1 /\ spc' = "closed" /\ UNCHANGED out
    /\ UNCHANGED <<sStatus, backendLeft, sTopK, readLog, cancelled, clientVars,
                   embedVars, ingestVars, searchVars, forwardVars, batchVars, chatVars>>

\* A fault variant: the catch closes the stream and the finally closes it
\* again.
ProxyReadFailsClosingTwice ==
    /\ spc = "streaming"
    /\ backendOpen' = FALSE
    /\ out' = Append(out, ProxyErrorEvent("stream_failed"))
    /\ closeCalls' = closeCalls + 2
    /\ spc' = "closed"
    /\ UNCHANGED <<sStatus, backendLeft, sTopK, readLog, cancelled, clientVars,
                   embedVars, ingestVars, searchVars, forwardVars, batchVars, chatVars>>

\* reader.read() rejects (the connection to the backend broke): the catch
\* enqueues an error event and the finally closes.
ProxyReadFails ==
    /\ spc = "streaming"
    /\ backendOpen' = FALSE
    /\ IF cancelled
       THEN LoopAbandoned
       ELSE /\ out' = Append(out, ProxyErrorEvent("stream_failed"))
            /\ closeCalls' = closeCalls + 1
            /\ spc' = "closed"
    /\ UNCHANGED <<sStatus, backendLeft, sTopK, readLog, cancelled, clientVars,
                   embedVars, ingestVars, searchVars, forwardVars, batchVars, chatVars>>

\* What a reader of the event stream is handed: the events that a blank line
\* ends. The proxy's own events come last, so nothing follows an event that
\* is not ended.
Dispatched(e) == e.tail = BlankLine

Delivered(stream) == SelectSeq(stream, Dispatched)

Terminal(e) == e.type \in {"done", "error"}

\* The next enqueued chunk reaches the caller's EventSource. An event that a
\* blank line ends is dispatched to onmessage: a content delta is appended to
\* assistantResponse, done closes the EventSource and saves the message, any
\* other type has no branch. Closing the EventSource while the proxy still
\* streams cancels the response stream.
EventSourceReceives ==
    /\ esState = "open"
    /\ seen < Len(out)
    /\ seen' = seen + 1
    /\ LET e == out[seen + 1]
       IN IF Dispatched(e) /\ e.type = "content"
          THEN /\ assistantResponse' = Append(assistantResponse, e.n)
               /\ UNCHANGED <<esState, savedMsgs, cancelled>>
          ELSE IF Dispatched(e) /\ e.type = "done"
          THEN /\ esState' = "closed"
               /\ savedMsgs' = Append(savedMsgs, assistantResponse)
               /\ cancelled' = (cancelled \/ spc = "streaming")
               /\ UNCHANGED assistantResponse
          ELSE UNCHANGED <<esState, assistantResponse, savedMsgs, cancelled>>
    /\ UNCHANGED <<spc, sStatus, backendLeft, out, closeCalls, sTopK, readLog,
                   backendOpen, alerts, embedVars, ingestVars, searchVars, forwardVars, batchVars, chatVars>>

\* The connection fails or ends (a 400 answer, or the end of the stream
\* after everything sent has arrived): onerror closes the EventSource and
\* alerts.
EventSourceOnError ==
    /\ esState = "open"
    /\ \/ spc = "rejected"
       \/ spc = "closed" /\ seen = Len(out)
    /\ esState' = "closed"
    /\ alerts' = alerts + 1
    /\ UNCHANGED <<proxyVars, seen, assistantResponse, savedMsgs,
                   embedVars, ingestVars, searchVars, forwardVars, batchVars, chatVars>>

\* The caller goes away while the proxy streams: the response stream is
\* cancelled.
CallerDisconnects ==
    /\ esState = "open"
    /\ spc = "streaming"
    /\ esState' = "closed"
    /\ cancelled' = TRUE
    /\ UNCHANGED <<spc, sStatus, backendLeft, out, closeCalls, sTopK, readLog,
                   backendOpen, seen, assistantResponse, savedMsgs, alerts,
                   embedVars, ingestVars, searchVars, forwardVars, batchVars, chatVars>>

NextStream ==
    \/ \E q \in {"missing", "", "  ", "what is it about?"}, k \in TopKParams :
          AskReceive(q, k)
    \/ \E kind \in FetchKinds, body \in BackendStreams : BackendFetchAnswers(kind, body)
    \/ ProxyReadChunk
    \/ ProxyReadDone
    \/ ProxyReadFails
    \/ EventSourceReceives
    \/ EventSourceOnError
    \/ CallerDisconnects

(***************************************************************************)
(* The chat page: HomePage (app/page.tsx) and ChatInterface                *)
(***************************************************************************)
\* The chat sessions: one the user already has, and the one createNewSession
\* makes; NoSession is the null of currentSessionId.
EarlierSession == "s1"
NewSession == "s2"
Sessions == {EarlierSession, NewSession}
NoSession == "none"

\* What the closure of a handleSubmit call holds and has done: no call yet.
NoSubmit == [file |-> FALSE, session |-> NoSession, first |-> FALSE, ingest |-> "none",
             shown |-> FALSE, saved |-> FALSE, opened |-> FALSE]

\* The message of role that a submission shows and saves under session s.
ChatMessage(s, role) == [session |-> s, role |-> role]

\* The rows of chat_messages when the page opens: the earlier session holds
\* a question and its answer.
EarlierMessages == <<ChatMessage(EarlierSession, "user"),
                     ChatMessage(EarlierSession, "assistant")>>

InitChat ==
    /\ curSession = NoSession
    /\ created = FALSE
    /\ messages = <<>>
    /\ chatDb = [s \in Sessions |-> IF s = EarlierSession THEN EarlierMessages ELSE <<>>]
    /\ loading = FALSE
    /\ hpc = "idle"
    /\ hSub = 0
    /\ run = NoSubmit
    /\ loads = {}
    /\ openStreams = [s \in Sessions |-> 0]
    /\ streamingMessage = FALSE

\* .from('chat_messages').select('*').eq('session_id', sessionId)
\*   .order('created_at', { ascending: true })
MessagesOf(s) == chatDb[s]

\* .from('chat_messages').insert({ session_id: sessionId, role, ... })
InsertMessage(s, role) == [chatDb EXCEPT ![s] = Append(@, ChatMessage(s, role))]

\* useEffect(..., [sessionId]) after the prop became s: loadMessages() is
\* called for a session, the list is emptied for none; shown is the list the
\* same stretch of code has set.
SessionEffect(s, shown) ==
    /\ curSession' = s
    /\ IF s = curSession
       THEN messages' = shown /\ UNCHANGED loads
       ELSE IF s = NoSession
       THEN messages' = <<>> /\ UNCHANGED loads
       ELSE /\ messages' = shown
            /\ loads' = loads \cup {s}

\* handleSessionSelect(sessionId) of the sidebar
SessionSelect(s) ==
    /\ s = NewSession => created
    /\ s # curSession
    /\ SessionEffect(s, messages)
    /\ UNCHANGED <<created, chatDb, loading, hpc, hSub, run, openStreams,
                   streamingMessage, embedVars, ingestVars, streamVars, searchVars,
                   forwardVars, batchVars>>

\* handleNewChat()
NewChat ==
    /\ curSession # NoSession
    /\ SessionEffect(NoSession, messages)
    /\ UNCHANGED <<created, chatDb, loading, hpc, hSub, run, openStreams,
                   streamingMessage, embedVars, ingestVars, streamVars, searchVars,
                   forwardVars, batchVars>>

\* loadMessages of session s resumes with the rows the table holds for s
\* when the query answers: an error is logged, otherwise setMessages(data || []).
LoadMessagesAnswers(s, ok) ==
    /\ s \in loads
    /\ loads' = loads \ {s}
    /\ messages' = IF ok THEN MessagesOf(s) ELSE messages
    /\ UNCHANGED <<curSession, created, chatDb, loading, hpc, hSub, run,
                   openStreams, streamingMessage, embedVars, ingestVars, streamVars,
                   searchVars, forwardVars, batchVars>>

\* const userMsg ...; setMessages(prev => [...prev, userMsg]);
\* await saveMessage(currentSessionId, 'user', userMessage)
WithUserMessage(sub) == Append(messages, ChatMessage(sub.session, "user"))

ShowUserMessage(sub) ==
    /\ run' = [sub EXCEPT !.shown = TRUE]
    /\ hpc' = "saving"

\* What is kept of a handleSubmit call that has ended: whether it had a file,
\* how its ingest ended and whether it opened its EventSource.
Ended(sub, opened) ==
    [NoSubmit EXCEPT !.file = sub.file, !.ingest = sub.ingest, !.opened = opened]

\* catch { alert(...) } finally { setInput(''); setFile(null); setLoading(false) }
SubmitFails(sub) ==
    /\ run' = Ended(sub, FALSE)
    /\ hpc' = "idle"
    /\ loading' = FALSE

\* new EventSource(...); the handlers are set and the finally runs.
OpenEventSource(sub) ==
    /\ run' = Ended(sub, TRUE)
    /\ openStreams' = [openStreams EXCEPT ![sub.session] = @ + 1]
    /\ streamingMessage' = FALSE
    /\ hpc' = "idle"
    /\ loading' = FALSE

\* handleSubmit starts. Without input and file, or while loading, it returns;
\* otherwise setLoading(true), and a session is created when there is none,
\* else the PDF is sent to /api/ingest when one is attached, else the user
\* message is shown and its save is sent.
HandleSubmit(hasInput, hasFile) ==
    /\ hSub < MaxSubmits
    /\ IF (~hasInput /\ ~hasFile) \/ loading
       THEN UNCHANGED <<messages, loading, hpc, hSub, run>>
       ELSE LET sub == [NoSubmit EXCEPT !.file = hasFile, !.session = curSession,
                                        !.first = (messages = <<>>)]
            IN /\ hSub' = hSub + 1
               /\ loading' = TRUE
               /\ IF curSession = NoSession
                  THEN hpc' = "creating" /\ run' = sub /\ UNCHANGED messages
                  ELSE IF hasFile
                  THEN /\ hpc' = "ingesting"
                       /\ run' = [sub EXCEPT !.ingest = "pending"]
                       /\ UNCHANGED messages
                  ELSE ShowUserMessage(sub) /\ messages' = WithUserMessage(sub)
    /\ UNCHANGED <<curSession, created, chatDb, loads, openStreams, streamingMessage,
                   embedVars, ingestVars, streamVars, searchVars, forwardVars, batchVars>>

\* createNewSession settles: an error is thrown on to handleSubmit's catch;
\* otherwise onSessionCreated(data.id) selects the new session and
\* handleSubmit goes on with its id.
SessionCreated(ok) ==
    /\ hpc = "creating"
    /\ ok => ~created
    /\ IF ~ok
       THEN /\ SubmitFails(run)
            /\ UNCHANGED <<curSession, created, messages, loads>>
       ELSE LET s == NewSession
                sub == [run EXCEPT !.session = s]
            IN /\ created' = TRUE
               /\ IF sub.file
                  THEN /\ hpc' = "ingesting"
                       /\ run' = [sub EXCEPT !.ingest = "pending"]
                       /\ SessionEffect(s, messages)
                  ELSE /\ ShowUserMessage(sub)
                       /\ SessionEffect(s, WithUserMessage(sub))
               /\ UNCHANGED loading
    /\ UNCHANGED <<chatDb, hSub, openStreams, streamingMessage,
                   embedVars, ingestVars, streamVars, searchVars, forwardVars, batchVars>>

\* What /api/ingest can answer: the fetch rejects, a body that is no JSON, a
\* JSON body with ok false, a JSON body with ok true.
ChatIngestKinds == {"reject", "notJson", "notOk", "ok"}

\* A fault variant: ingestResult.ok is not looked at.
ChatIngestAnswersUnchecked(kind) ==
    /\ hpc = "ingesting"
    /\ ShowUserMessage([run EXCEPT !.ingest = IF kind = "ok" THEN "ok" ELSE "failed"])
    /\ messages' = WithUserMessage(run)
    /\ UNCHANGED <<curSession, created, chatDb, loading, hSub, loads, openStreams,
                   streamingMessage,
                   embedVars, ingestVars, streamVars, searchVars, forwardVars, batchVars>>

\* The ingest call settles: a rejected fetch, a body that is no JSON and
\* ok false throw to the catch; ok true goes on to the user message.
ChatIngestAnswers(kind) ==
    /\ hpc = "ingesting"
    /\ IF kind = "ok"
       THEN /\ ShowUserMessage([run EXCEPT !.ingest = "ok"])
            /\ messages' = WithUserMessage(run)
            /\ UNCHANGED loading
       ELSE /\ SubmitFails([run EXCEPT !.ingest = "failed"])
            /\ UNCHANGED messages
    /\ UNCHANGED <<curSession, created, chatDb, hSub, loads, openStreams,
                   streamingMessage,
                   embedVars, ingestVars, streamVars, searchVars, forwardVars, batchVars>>

\* saveMessage of the user message settles (a failure is only logged): the
\* title is updated for the first message of the list, else the EventSource
\* is opened.
UserMessageSaved(ok) ==
    /\ hpc = "saving"
    /\ LET sub == [run EXCEPT !.saved = ok]
       IN /\ chatDb' = IF ok THEN InsertMessage(sub.session, "user") ELSE chatDb
          /\ IF sub.first
             THEN /\ hpc' = "titling"
                  /\ run' = sub
                  /\ UNCHANGED <<loading, openStreams, streamingMessage>>
             ELSE OpenEventSource(sub)
    /\ UNCHANGED <<curSession, created, messages, hSub, loads,
                   embedVars, ingestVars, streamVars, searchVars, forwardVars, batchVars>>

\* updateSessionTitle settles (it catches its own failure): the EventSource
\* is opened.
TitleUpdated ==
    /\ hpc = "titling"
    /\ OpenEventSource(run)
    /\ UNCHANGED <<curSession, created, messages, chatDb, hSub, loads,
                   embedVars, ingestVars, streamVars, searchVars, forwardVars, batchVars>>

\* onmessage, type content, of an EventSource opened for session s:
\* assistantResponse += data.content; setStreamingMessage(assistantResponse)
OnMessageContent(s) ==
    /\ openStreams[s] > 0
    /\ streamingMessage' = TRUE
    /\ UNCHANGED <<curSession, created, messages, chatDb, loading, hpc, hSub, run,
                   loads, openStreams,
                   embedVars, ingestVars, streamVars, searchVars, forwardVars, batchVars>>

\* onmessage, type done: the EventSource is closed, the assistant message is
\* appended to the list and its save is sent (a failure is only logged).
OnMessageDone(s, ok) ==
    /\ openStreams[s] > 0
    /\ openStreams' = [openStreams EXCEPT ![s] = @ - 1]
    /\ messages' = Append(messages, ChatMessage(s, "assistant"))
    /\ chatDb' = IF ok THEN InsertMessage(s, "assistant") ELSE chatDb
    /\ streamingMessage' = FALSE
    /\ UNCHANGED <<curSession, created, loading, hpc, hSub, run, loads,
                   embedVars, ingestVars, streamVars, searchVars, forwardVars, batchVars>>

\* onerror: the EventSource is closed, the streaming text cleared, an alert
\* shown.
OnError(s) ==
    /\ openStreams[s] > 0
    /\ openStreams' = [openStreams EXCEPT ![s] = @ - 1]
    /\ streamingMessage' = FALSE
    /\ UNCHANGED <<curSession, created, messages, chatDb, loading, hpc, hSub, run,
                   loads,
                   embedVars, ingestVars, streamVars, searchVars, forwardVars, batchVars>>

NextChat ==
    \/ \E s \in Sessions : SessionSelect(s)
    \/ NewChat
    \/ \E s \in Sessions, ok \in BOOLEAN : LoadMessagesAnswers(s, ok)
    \/ \E hasInput, hasFile \in BOOLEAN : HandleSubmit(hasInput, hasFile)
    \/ \E ok \in BOOLEAN : SessionCreated(ok)
    \/ \E kind \in ChatIngestKinds : ChatIngestAnswers(kind)
    \/ \E ok \in BOOLEAN : UserMessageSaved(ok)
    \/ TitleUpdated
    \/ \E s \in Sessions : OnMessageContent(s)
    \/ \E s \in Sessions, ok \in BOOLEAN : OnMessageDone(s, ok)
    \/ \E s \in Sessions : OnError(s)

Init ==
    /\ InitEmbed /\ InitIngest /\ InitStream /\ InitSearch /\ InitForward /\ InitBatch
    /\ InitChat

\* The search route starts on a table that earlier ingests have filled.
InitStored ==
    /\ InitEmbed /\ InitStream /\ InitSearch /\ InitForward /\ InitBatch
    /\ InitChat
    /\ ipc = [r \in Ingests |-> "idle"]
    /\ ifile = [r \in Ingests |-> NoFile]
    /\ chunks = [r \in Ingests |-> <<>>]
    /\ embeddings = [r \in Ingests |-> <<>>]
    /\ docId = [r \in Ingests |-> 0]
    /\ insRes = [r \in Ingests |-> "none"]
    /\ log = [r \in Ingests |-> <<>>]
    /\ failedAt = [r \in Ingests |-> "none"]
    /\ resp = [r \in Ingests |-> NoResp]
    /\ userDocs = {}
    /\ searchRes = {}
    /\ \E files \in StoredFiles :
          store = StoredBy(files) /\ nextDoc = Len(files)

SpecEmbed == Init /\ [][NextEmbed]_vars

SpecIngest == Init /\ [][NextIngest]_vars

SpecStream == Init /\ [][NextStream]_vars

\* The same with the promises the proxy awaits settling in the end: the
\* fetch of the backend, and each reader.read() of the loop.
SpecStreamFair ==
    /\ SpecStream
    /\ WF_vars(\E kind \in FetchKinds, body \in BackendStreams :
                  BackendFetchAnswers(kind, body))
    /\ WF_vars(ProxyReadChunk \/ ProxyReadDone \/ ProxyReadFails)

SpecSearch == InitStored /\ [][NextSearch]_vars

SpecForward == Init /\ [][NextForward]_vars

SpecBatch == Init /\ [][NextBatch]_vars

SpecChat == Init /\ [][NextChat]_vars

(***************************************************************************)
(* Properties of the embedding service, checked under SpecEmbed            *)
(***************************************************************************)
InFlight == {p \in Promises : promiseState[p] = "pending"}

EverLoaded == \E p \in Promises : promiseState[p] = "fulfilled"

\* C1: at most one model load is in flight at any time; a caller that
\* arrives while a load is in flight starts none and waits on the very
\* promise of that load, so all waiting callers wait on the same initPromise.
C1_SingleLoadInFlight ==
    /\ Cardinality(InFlight) <= 1
    /\ \A c \in Callers :
          (cpc[c] \in {"owner", "follow"} /\ promiseState[cAwait[c]] = "pending")
             => cAwait[c] = initPromise
    /\ \A c \in Callers : cpc[c] = "follow" => cStarted[c] = 0
    /\ \A c, d \in Callers :
          (c # d /\ cpc[c] = "owner" /\ cpc[d] = "owner") => cAwait[c] # cAwait[d]

\* C1, its case: a second caller waits on the load the first one started.
C1_Witness ==
    \E c, d \in Callers :
        /\ cpc[c] = "owner" /\ cpc[d] = "follow"
        /\ cAwait[c] = cAwait[d]
        /\ promiseState[cAwait[c]] = "pending"

\* C2 as stated: once a model load has completed successfully, no later call
\* starts another model load, whatever is called (dispose included).
C2_LoadedOnceEver ==
    [][EverLoaded => loadsStarted' = loadsStarted]_vars

\* C2, amended: once a model load has completed successfully, a later call
\* starts another load only if dispose() has dropped the loaded model since
\* the last successful load; without dispose the model is loaded once.
C2_LoadedOnceUnlessDisposed ==
    [][(EverLoaded /\ loadsStarted' # loadsStarted) => disposedSince]_vars

\* C2, its case: a model was loaded, disposed of, and a new load is running.
C2_Witness ==
    /\ EverLoaded
    /\ disposedSince
    /\ InFlight # {}

\* C3: when a model load fails, every call that waited on it ends with an
\* error and has started no further load (the one that started it: that one
\* load only); when the starter resumes the service is neither initialized
\* nor initializing, it is never left initializing on a settled promise, and
\* a call that finds it so starts a fresh load.
C3_FailedLoad ==
    /\ [](\A c \in Callers :
            (cAwait[c] # 0 /\ promiseState[cAwait[c]] = "rejected") =>
               /\ cpc[c] \in {"owner", "follow", "done"}
               /\ cpc[c] = "done" => cResult[c] = "error"
               /\ cStarted[c] <= 1
               /\ cStarted[c] = 1 => loadsStarted >= cAwait[c])
    /\ [](isInitializing =>
             \/ promiseState[initPromise] = "pending"
             \/ \E c \in Callers : cpc[c] = "owner" /\ cAwait[c] = initPromise)
    /\ [][\A c \in Callers :
            /\ (cpc[c] = "owner" /\ promiseState[cAwait[c]] = "rejected"
                   /\ cpc'[c] # "owner")
                  => (~isInitializing' /\ ~embedder' /\ cResult'[c] = "error")
            /\ (cpc[c] = "idle" /\ cpc'[c] # "idle" /\ ~embedder /\ ~isInitializing)
                  => /\ cpc'[c] = "owner"
                     /\ loadsStarted' = loadsStarted + 1
                     /\ promiseState'[cAwait'[c]] = "pending"]_vars

\* C3, its case: a call that waited on a failed load has ended with an
\* error, and a later call has started a fresh load.
C3_Witness ==
    \E c \in Callers :
        /\ cpc[c] = "done" /\ cResult[c] = "error" /\ cStarted[c] = 0
        /\ cAwait[c] # 0
        /\ promiseState[cAwait[c]] = "rejected"
        /\ \E p \in Promises : p > cAwait[c] /\ promiseState[p] = "pending"

(***************************************************************************)
(* Properties of the ingest route, checked under SpecIngest                *)
(***************************************************************************)
Failed(r) == ipc[r] = "done" /\ ~resp[r].ok

Completed(r) == ipc[r] = "done" /\ resp[r].ok

IndexesOf(r) == 0..(Len(chunks[r]) - 1)

\* C4 as stated: when the route has answered a failure of the store stage, no
\* chunk of that document is in the table, and every document is in the
\* table with all of its chunks or with none.
C4_NothingVisibleAfterStoreFailure ==
    \A r \in Ingests :
        /\ (Failed(r) /\ failedAt[r] = "store") => RowsOf(docId[r]) = {}
        /\ docId[r] # 0 => VisibleIndexes(docId[r]) \in {{}, IndexesOf(r)}

\* C5: at every moment the chunks of a document that a search can reach are
\* none or all of 0..n-1, and a chunk a search has returned belongs to a
\* document whose chunks are all in the table.
C5_VisibleAllOrNone ==
    /\ \A r \in Ingests :
          docId[r] # 0 => VisibleIndexes(docId[r]) \in {{}, IndexesOf(r)}
    /\ \A hit \in searchRes :
          \E r \in Ingests :
             /\ docId[r] = hit[1]
             /\ hit[2] \in IndexesOf(r)
             /\ VisibleIndexes(docId[r]) = IndexesOf(r)

\* C5, its case: a search has returned a chunk of a document whose rows are
\* written while the insert of another ingest is still on its way.
C5_Witness ==
    \E r, q \in Ingests :
        /\ r # q
        /\ ipc[r] = "inserted" /\ <<docId[r], 0>> \in searchRes
        /\ ipc[q] = "inserting"

StageOrder == <<"extract", "embed", "store", "userdoc">>

IsPrefix(a, b) == Len(a) <= Len(b) /\ \A i \in 1..Len(a) : a[i] = b[i]

\* C6: the stages a request has attempted are a prefix of backend call,
\* embedding, store insert (then the optional user_documents row): in this
\* order and each at most once; embedding starts with the backend's chunks,
\* the insert with one vector per chunk; a success answer comes after a
\* successful insert only; and after the response no stage runs.
C6_StagesInOrder ==
    /\ [](\A r \in Ingests :
            /\ IsPrefix(log[r], StageOrder)
            /\ Len(log[r]) >= 2 => chunks[r] # <<>>
            /\ Len(log[r]) >= 3 =>
                  (Len(embeddings[r]) = Len(chunks[r]) /\ docId[r] # 0)
            /\ Len(log[r]) < 3 => (docId[r] = 0 /\ RowsOf(docId[r]) = {})
            /\ Completed(r) => (Len(log[r]) >= 3 /\ insRes[r] = "ok")
            /\ (ipc[r] = "done") = (resp[r].status # 0))
    /\ [][\A r \in Ingests :
            ipc[r] = "done" =>
               /\ ipc'[r] = "done" /\ log'[r] = log[r] /\ resp'[r] = resp[r]
               /\ RowsOf(docId[r])' = RowsOf(docId[r])]_vars

\* C6, its case: one request went through every stage, another one failed
\* at the embedding and went no further.
C6_Witness ==
    \E r, q \in Ingests :
        /\ Completed(r) /\ log[r] = StageOrder
        /\ Failed(q) /\ log[q] = <<"extract", "embed">>

C8_SuccessStoresAllChunks ==
    \A r \in Ingests :
        Completed(r) =>
           LET cs == BackendChunks(ifile[r])
               n == Len(cs)
           IN /\ resp[r].doc_id = docId[r] /\ docId[r] # 0
              /\ resp[r].chunks = n /\ n > 0
              /\ RowsOf(docId[r]) =
                    { [id |-> <<docId[r], i>>, doc_id |-> docId[r],
                       content |-> cs[i + 1], embedding |-> EmbedVec(cs[i + 1]),
                       source_name |-> ifile[r], chunk_index |-> i] :
                      i \in 0..(n - 1) }

\* C8, its case: a document of three chunks has been stored.
C8_Witness ==
    \E r \in Ingests : Completed(r) /\ resp[r].chunks = 3

\* C9: two ingests never share a document id or a row id, no insert fails on
\* a row id that is taken, every row belongs to the ingest that wrote it, and
\* the rows of an ingest whose insert succeeded stay as that ingest wrote them.
C9_IngestsKeepApart ==
    /\ \A r, q \in Ingests :
          (r # q /\ docId[r] # 0 /\ docId[q] # 0) =>
             /\ docId[r] # docId[q]
             /\ {x.id : x \in RowsOf(docId[r])} \cap {x.id : x \in RowsOf(docId[q])} = {}
    /\ \A r \in Ingests : insRes[r] # "conflict"
    /\ \A x \in store :
          \E r \in Ingests :
             /\ x.doc_id = docId[r] /\ x.source_name = ifile[r]
             /\ x.chunk_index \in IndexesOf(r)
             /\ x.content = chunks[r][x.chunk_index + 1]
    /\ \A r \in Ingests :
          insRes[r] = "ok" => Cardinality(RowsOf(docId[r])) = Len(chunks[r])

\* C9, its case: the same file has been ingested twice, both times with
\* success.
C9_Witness ==
    \E r, q \in Ingests :
        /\ r # q /\ ifile[r] = ifile[q]
        /\ Completed(r) /\ Completed(q)

(***************************************************************************)
(* Properties of the ask-stream proxy, checked under SpecStream            *)
(***************************************************************************)
\* C10 as stated: when the response stream has ended, its reader has been
\* handed exactly one terminal event (done or error), and as the last event.
C10_OneTerminalEventLast ==
    spc = "closed" =>
       LET d == Delivered(out)
       IN /\ Len(d) > 0
          /\ Terminal(d[Len(d)])
          /\ \A i \in 1..(Len(d) - 1) : ~Terminal(d[i])


\* The events of the proxy's own making in a stream.
IsProxyEvent(e) == e.tail = ProxyTail

IsContentEvent(e) == Dispatched(e) /\ e.type = "content"

\* C11: as long as the caller has not cancelled, the chunks enqueued on the
\* response stream are exactly the chunks read from the backend, each once
\* and in the order read (at most the proxy's own error event follows them),
\* so no chunk read waits unforwarded; after a cancellation they are a prefix
\* of the chunks read. The caller's answer is the content deltas that have
\* reached it, in the order received, which is the order of generation.
C11_ChunksForwardedInOrder ==
    LET n == Len(out)
        own == n > 0 /\ IsProxyEvent(out[n])
        fwd == IF own THEN SubSeq(out, 1, n - 1) ELSE out
        got == SelectSeq(SubSeq(out, 1, seen), IsContentEvent)
    IN /\ IsPrefix(fwd, readLog)
       /\ ~cancelled => fwd = readLog
       /\ \A i \in 1..Len(fwd) : ~IsProxyEvent(fwd[i])
       /\ seen <= n
       /\ assistantResponse = [i \in 1..Len(got) |-> got[i].n]
       /\ \A i \in 1..Len(assistantResponse) : assistantResponse[i] = i

\* C11, its case: two content deltas were read, forwarded and appended to
\* the answer, and the stream has ended with done.
C11_Witness ==
    /\ ~cancelled
    /\ spc = "closed"
    /\ Len(readLog) >= 3
    /\ assistantResponse = <<1, 2>>
    /\ savedMsgs = <<assistantResponse>>

\* C12 as stated: when reading the backend fails after k chunks, the caller
\* is handed those k chunks in order and then one error event, the last.
C12_ReadErrorDeliversErrorEvent ==
    (spc = "closed" /\ out # <<>> /\ out[Len(out)].msg = "stream_failed") =>
       LET d == Delivered(out)
           k == Len(readLog)
       IN /\ Len(d) = k + 1
          /\ SubSeq(d, 1, k) = readLog
          /\ d[k + 1].type = "error"

\* C13 as stated: once the caller has cancelled and the read loop has ended,
\* the backend's body is no longer held open by the proxy.
C13_CancelReleasesBackend ==
    (cancelled /\ spc = "aborted") => ~backendOpen

\* The texts of the integers from 1 on that the explored parameters reach.
PositiveCounts == {"1", "2", "3", "4", "5"}

\* C15 as stated: the top_k the proxy sends to the backend is an integer of
\* at least 1.
C15_ForwardedTopKPositive ==
    sTopK # "none" => sTopK \in PositiveCounts

(***************************************************************************)
(* Properties of the search route, checked under SpecSearch                *)
(***************************************************************************)
SearchDone == qpc = "done"

Range(seq) == {seq[i] : i \in 1..Len(seq)}

\* C14 as stated: a search request without a question, or with an empty
\* one, is answered 400 and has called neither the embedding nor the rpc.
C14_MissingQuestionAnswered400 ==
    (SearchDone /\ (~qBody.json \/ qBody.question \in {"missing", ""})) =>
       /\ qResp.status = 400
       /\ qCalls = [embedding |-> 0, rpc |-> 0]

\* C16 as stated: the matches of a successful search come by descending
\* similarity, and matches of equal similarity by ascending chunk index.
C16_SortedTiesByChunkIndex ==
    (SearchDone /\ qResp.ok) =>
       \A i, j \in 1..Len(qResp.results) :
          i < j =>
             /\ qResp.results[i].similarity >= qResp.results[j].similarity
             /\ qResp.results[i].similarity = qResp.results[j].similarity
                   => qResp.results[i].chunk_index <= qResp.results[j].chunk_index

C17_WitnessAtFloor ==
    /\ SearchDone /\ qResp.ok
    /\ Len(qResp.results) < qCount
    /\ \E row \in store : CosinePct(row.embedding, qVec) = FloorPct

\* C18 as stated: a search with the query vector and count of the search
\* before it, on the same table, returns the same rows in the same order.
C18_SameSearchSameRows ==
    (SearchDone /\ qCalls.rpc = 1 /\ ~qRes.error
       /\ qPrev.vec # 0 /\ qPrev.vec = qVec /\ qPrev.count = qCount) =>
       qRes.data = qPrev.rows

\* C19: a search that finds no row above the floor is answered as a success
\* with an empty list and total_results 0; an rpc error and a failed question
\* embedding are answered as failures with a reason; a success follows only
\* an rpc without error, and an rpc without error is always a success.
C19_SearchOutcomesDistinct ==
    SearchDone =>
       /\ qRes.error => (~qResp.ok /\ qResp.status = 500)
       /\ (qCalls.embedding = 1 /\ qCalls.rpc = 0) => (~qResp.ok /\ qResp.status = 500)
       /\ ~qResp.ok => (qResp.reason # "" /\ {"ok", "reason"} \subseteq qResp.fields)
       /\ qResp.ok = (qCalls.rpc = 1 /\ ~qRes.error)
       /\ qResp.ok => (qResp.status = 200 /\ qResp.total_results = Len(qResp.results))
       /\ (qCalls.rpc = 1 /\ ~qRes.error /\ Candidates(store, qVec, FloorPct) = {}) =>
             (qResp.ok /\ qResp.results = <<>> /\ qResp.total_results = 0)

\* C19, its case: the table holds rows, none is above the floor, and the
\* search is answered as an empty success.
C19_Witness ==
    /\ SearchDone /\ qResp.ok
    /\ store # {}
    /\ qResp.results = <<>> /\ qResp.total_results = 0
    /\ qCount >= 1

(***************************************************************************)
(* Properties of the two forwarding proxies, checked under SpecForward     *)
(***************************************************************************)
\* C20 as stated: no exception leaves a handler, and a request that the
\* backend answers with an error status or with a body that is no JSON is
\* answered with a body that has ok and a reason.
C20_NoExceptionEscapes ==
    /\ ppc # "threw"
    /\ (ppc = "done" /\ pResp.status >= 400) => {"ok", "reason"} \subseteq pResp.fields

\* C24: a proxy request that has been answered either was sent to the
\* backend once and carries status 200 exactly when the backend's status was
\* from 200 to 299 and status 500 otherwise, with the fields of the backend's
\* JSON body or none when that body is no JSON, or was not sent at all and
\* carries 400; an ingest request without a file is of the second kind.
C24_ProxyStatusMapping ==
    /\ ppc = "fetching" => (pSent.calls = 1 /\ pResp.status = 0)
    /\ ppc = "done" =>
          IF pResp.upstream = 0
          THEN pResp.status = 400 /\ pSent.calls = 0
          ELSE /\ pSent.calls = 1
               /\ pResp.status \in {200, 500}
               /\ (pResp.status = 200) = (pResp.upstream >= 200 /\ pResp.upstream <= 299)
               /\ pResp.data = "notJson" => pResp.fields = {}
               /\ pResp.data = "okTrue" => pResp.fields = {"ok", "answer"}
               /\ pResp.data = "okFalse" => pResp.fields = {"ok", "reason"}
               /\ pResp.data = "detail" => pResp.fields = {"detail"}
    /\ (ppc = "done" /\ pRoute = "ingest" /\ pReq \in {"noFile", "textField"}) =>
          (pResp.status = 400 /\ pSent.calls = 0)

\* C24, its case: the backend has answered 404 with a JSON body, and the
\* proxy has answered 500 with that body.
C24_Witness ==
    /\ ppc = "done"
    /\ pResp.upstream = 404 /\ pResp.status = 500
    /\ pResp.fields = {"detail"}

\* C26: the embedding is never started on an empty chunk list, and a request
\* answered because the backend returned no chunk list or an empty one has
\* failed with status 400 after the extraction alone: it has no vectors and
\* no document id, and every row of document_chunks and of user_documents
\* belongs to a document of another request.
C26_NoChunksNothingWritten ==
    \A r \in Ingests :
        /\ (\E i \in 1..Len(log[r]) : log[r][i] = "embed") => chunks[r] # <<>>
        /\ resp[r].reason \in {"no_chunks", "no_chunk_list"} =>
              /\ Failed(r) /\ resp[r].status = 400
              /\ log[r] = <<"extract">>
              /\ chunks[r] = <<>> /\ embeddings[r] = <<>>
              /\ docId[r] = 0 /\ insRes[r] = "none"
              /\ \A row \in store \cup userDocs :
                    \E q \in Ingests \ {r} : docId[q] # 0 /\ row.doc_id = docId[q]

\* C26, its case: one request has been answered for an empty chunk list
\* while the other has stored its rows.
C26_Witness ==
    \E r, q \in Ingests :
        /\ Failed(r) /\ resp[r].reason = "no_chunks"
        /\ Completed(q) /\ store # {}

\* The messages of the error events the proxy writes itself.
ProxyMessages == {"response_failed", "backend_status", "no_reader", "stream_failed"}

\* C27 as stated: every error event the proxy has written is a complete
\* server-sent event, ended by a blank line, so that its reader dispatches it.
C27_ProxyErrorEventsComplete ==
    \A i \in 1..Len(out) :
        out[i].msg \in ProxyMessages => Dispatched(out[i])

\* C28: controller.close() is called at most once and a closed stream has
\* been closed by exactly one call; once the stream is closed or abandoned
\* nothing more is enqueued or closed; and a request that fetches the backend
\* ends with its stream closed, by the proxy unless the caller cancelled it
\* first (no reader, normal end and read error alike).
C28_StreamClosedOnce ==
    /\ [](closeCalls <= 1)
    /\ [](spc = "closed" => (closeCalls = 1 /\ ~backendOpen))
    /\ [][(spc \in {"closed", "aborted"}) =>
             (out' = out /\ closeCalls' = closeCalls /\ spc' = spc)]_vars
    /\ (spc = "fetching") ~> (spc \in {"closed", "aborted"})
    /\ (spc = "fetching") ~> (spc = "closed" \/ cancelled)

\* C28, its case: a read error after two forwarded chunks has closed the
\* stream, the error event being the last thing enqueued.
C28_Witness ==
    /\ spc = "closed" /\ closeCalls = 1
    /\ Len(out) = 3
    /\ out[3] = ProxyErrorEvent("stream_failed")
    /\ out[1] = ContentEvent(1) /\ out[2] = ContentEvent(2)

\* C25: a submission with a PDF shows and saves its user message and opens
\* its ask stream only after its ingest answered ok true; while the ingest is
\* pending nothing of it is shown, saved or opened, and a submission whose
\* ingest failed has ended without a user message, a save or a stream.
C25_IngestBeforeAsk ==
    /\ (run.file /\ (run.shown \/ run.saved \/ run.opened)) => run.ingest = "ok"
    /\ (run.file /\ hpc \in {"saving", "titling"}) => run.ingest = "ok"
    /\ hpc = "ingesting" =>
          (run.file /\ run.ingest = "pending" /\ ~run.shown /\ ~run.opened /\ loading)
    /\ run.ingest = "failed" =>
          (hpc = "idle" /\ ~loading /\ ~run.shown /\ ~run.saved /\ ~run.opened)

\* C25, its case: the ingest of the last submission has failed, and nothing
\* was shown, saved or opened for it: the list and the table are as the
\* earlier session left them and no stream is open.
C25_Witness ==
    /\ run.file /\ run.ingest = "failed"
    /\ curSession = EarlierSession
    /\ messages = EarlierMessages
    /\ chatDb[EarlierSession] = EarlierMessages
    /\ \A s \in Sessions : openStreams[s] = 0

\* C25, its other case: a submission with a PDF has opened its stream after
\* its ingest answered ok true.
C25_WitnessOpened ==
    /\ run.file /\ run.ingest = "ok" /\ run.opened
    /\ \E s \in Sessions : openStreams[s] = 1

\* C29 as stated: a ChatInterface has at most one EventSource open at any
\* time.
C29_OneStreamOpen ==
    LET open == {s \in Sessions : openStreams[s] > 0}
    IN /\ Cardinality(open) <= 1
       /\ \A s \in open : openStreams[s] = 1

\* C30 as stated: unless a loadMessages call for the selected session is
\* still on its way, the displayed list holds only messages of the selected
\* session.
C30_ListOfSelectedSession ==
    curSession \notin loads =>
        \A i \in 1..Len(messages) : messages[i].session = curSession

(***************************************************************************)
(* Concurrent asks and the shared embedding service, under SpecEmbed       *)
(***************************************************************************)
serviceState == <<embedder, isInitializing, initPromise, promiseState, loadsStarted>>

\* C21 as stated: asks share no mutable state: a call into the embedding
\* service waits only on a model load that it has started itself.
C21_AsksShareNothing ==
    \A c \in Callers : cAwait[c] # 0 => cStarted[c] = 1

\* C21, amended: what concurrent asks share is the model load of the
\* embedding service and nothing else: a call that waits on a load it did not
\* start has started none; a call that finds the model loaded goes straight
\* to its inference and writes no service state; and an inference that
\* settles changes neither the service state nor the position or the result
\* of any other call.
C21_AsksShareOnlyTheModelLoad ==
    /\ [](\A c \in Callers : cpc[c] = "follow" => (cStarted[c] = 0 /\ cAwait[c] # 0))
    /\ [][\A c \in Callers :
            /\ (cpc[c] = "idle" /\ cpc'[c] # "idle" /\ embedder
                  /\ cop'[c] # "initialize") =>
                  (cpc'[c] = "inferring" /\ UNCHANGED serviceState)
            /\ (cpc[c] = "inferring" /\ cpc'[c] = "done") =>
                  /\ UNCHANGED serviceState
                  /\ \A d \in Callers \ {c} :
                        cpc'[d] = cpc[d] /\ cResult'[d] = cResult[d]]_vars

\* C21, its case: of two concurrent asks the one that joined the other's
\* model load has its vector, while the inference of the other has failed.
C21_Witness ==
    \E c, d \in Callers :
        /\ c # d
        /\ cop[c] = "generateEmbedding" /\ cop[d] = "generateEmbedding"
        /\ cpc[c] = "done" /\ cResult[c] = "ok" /\ cStarted[c] = 0 /\ cAwait[c] # 0
        /\ cpc[d] = "done" /\ cResult[d] = "error" /\ cStarted[d] = 1
        /\ cAwait[d] = cAwait[c]

(***************************************************************************)
(* Properties of generateEmbedding(s), checked under SpecBatch             *)
(***************************************************************************)
\* p is the beginning of t (both written as runs).
RECURSIVE IsTextPrefix(_, _)
IsTextPrefix(p, t) ==
    IF p = <<>> THEN TRUE
    ELSE IF t = <<>> \/ Head(p)[1] # Head(t)[1] THEN FALSE
    ELSE IF Head(p)[2] = Head(t)[2] THEN IsTextPrefix(Tail(p), Tail(t))
    ELSE Head(p)[2] < Head(t)[2] /\ Tail(p) = <<>>

Min(a, b) == IF a < b THEN a ELSE b

\* C22: a generateEmbeddings call that resolves returns one vector per text,
\* the i-th being the embedding of the i-th text whatever the order in which
\* the embeddings completed; when an embedding has failed the call does not
\* resolve, and a call that is rejected returns no list.
C22_BatchKeepsOrder ==
    /\ bpc = "resolved" =>
          /\ Len(bResult) = Len(bTexts)
          /\ \A i \in 1..Len(bTexts) :
                bResult[i] = Encode(IF TextLen(bTexts[i]) > CharBudget
                                    THEN Substring(bTexts[i], CharBudget)
                                    ELSE bTexts[i])
          /\ \A i \in 1..Len(bTexts) : bSlot[i] = "done"
    /\ (\E i \in 1..Len(bTexts) : bSlot[i] = "failed") => bpc = "rejected"
    /\ bpc # "resolved" => bResult = <<>>

\* C22, its case: two texts with different embeddings, the second of which
\* completed first, and the call has resolved.
C22_Witness ==
    /\ bpc = "resolved"
    /\ bDoneOrder = <<2, 1>>
    /\ bResult[1] # bResult[2]

\* C23: what generateEmbedding encodes is the text itself when it has at most
\* 2000 characters and its first 2000 characters when it has more, so texts
\* that begin with the same 2000 characters get the same vector.
C23_LongTextsTruncated ==
    /\ \A i \in 1..Len(bTexts) :
          bSlot[i] = "done" =>
             LET t == bTexts[i]
                 x == bVec[i].of
             IN /\ TextLen(x) = Min(TextLen(t), CharBudget)
                /\ IsTextPrefix(x, t)
                /\ TextLen(t) <= CharBudget => x = t
    /\ \A i, j \in 1..Len(bTexts) :
          (bSlot[i] = "done" /\ bSlot[j] = "done"
             /\ Substring(bTexts[i], CharBudget) = Substring(bTexts[j], CharBudget))
          => bVec[i] = bVec[j]

\* C23, its case: a text of more than 2000 characters and the text of its
\* first 2000 characters have both been embedded.
C23_Witness ==
    \E i, j \in 1..Len(bTexts) :
        /\ bSlot[i] = "done" /\ bSlot[j] = "done"
        /\ TextLen(bTexts[i]) > CharBudget
        /\ TextLen(bTexts[j]) = CharBudget
        /\ bTexts[j] = Substring(bTexts[i], CharBudget)
        /\ bVec[i] = bVec[j]

====
